---------------------------- MODULE Spec2Model ----------------------------
(***************************************************************************)
(* Model of the page-oriented B+Tree of src/btree/mod.rs.                  *)
(*                                                                         *)
(* The tree object holds the root page id; every node lives in one page.  *)
(* An operation decodes a node from its page, changes it and writes it     *)
(* back.  BTree::insert, BTree::delete are the actions; get, scan and      *)
(* range read the pages and are operators over the state.                  *)
(*                                                                         *)
(* Node (btree/node.rs), Increment (btree/slot.rs) and the page cache are  *)
(* not among the sources at hand: almost_full, split, last_key,            *)
(* find_child, get_separators and next are modelled from the written       *)
(* specification (sections 3 and 4.E).                                     *)
(*                                                                         *)
(* The LRU-K replacer of src/replacer.rs is modelled next to the tree:     *)
(* LRUKReplacer's record_access, pin, unpin, remove and evict are the      *)
(* actions of SpecRep.                                                     *)
(***************************************************************************)
EXTENDS Integers, FiniteSets, Sequences, TLC

\* ---------------------------------------------------------------- bounds
\* Slot capacity of a node (the tests use 8).
MAX == 4
\* Keys offered to insert/delete/get are 1..MaxKey.
MaxKey == 4
\* Keys of the insert-only workload (SpecIns) are 1..MaxKeyIns.
MaxKeyIns == 6
\* Values offered to insert are 1..MaxVal.
MaxVal == 2
\* Pages the disk hands out before the model stops issuing operations
\* that would allocate more.
MaxPages == 5
\* Keys of the workload with a cache under pressure (SpecOOM) are 1..MaxKeyOOM.
MaxKeyOOM == 6
\* Keys that workload deletes are 1..MaxKeyDel.
MaxKeyDel == 2
\* Keys and pages of the workload with the small cache (SpecMem).
MaxKeyMem == 7
\* The low keys inserted next to the greatest key of the key type.
MaxKeyTop == 5
\* i32::MAX and i32::MIN: the keys of the tests are i32.
I32_MAX == 2147483647
I32_MIN == (0 - I32_MAX) - 1
\* Low keys and the greatest key of the key type.
KeysTop == (1..MaxKeyTop) \cup {I32_MAX}
MaxPagesMem == 9
\* Frames the replacer is told about are 0..NFrames-1.
NFrames == 3
\* The replacer is built with a K of 1..MaxK.
MaxK == 2
\* record_access is called while the clock is below MaxTs.
MaxTs == 4
\* pin is called on a frame while its counter is below MaxPin.
MaxPin == 1
\* Keys, values and pointers of the slots the codecs are given are
\* -1..MaxNum; the flag byte of a slot on a page is 0..MaxFlag.
MaxNum == 2
MaxFlag == 2
\* The page of an internal node has room for the header and MaxPairs pairs.
MaxPairs == 3
\* Bytes of the page of a table node (the header takes 12, a slot 9), and
\* the longest tuple handed to its insert.
TablePageSize == 34
MaxTupleLen == 23
\* Names of tables and of indexes given to the catalog are 1..MaxNames, and
\* create_index is called while fewer than MaxIndexes indexes exist.
MaxNames == 3
MaxIndexes == 3
\* Tasks that call the tree at the same time, the calls each makes, and
\* the keys of the tree they call (inserted in ascending order).
NProcs == 2
\* Tasks that hold a clone of the replacer's handle, and the messages
\* each of them sends.
NSenders == 2
MaxSends == 2
MaxOps == 1
MaxKeyL == 5

Keys == 1..MaxKey
FrameIds == 0..(NFrames - 1)
Vals == 1..MaxVal
KeysIns == 1..MaxKeyIns
KeysOOM == 1..MaxKeyOOM
KeysMem == 1..MaxKeyMem
AllKeys == Keys \cup KeysIns \cup KeysOOM \cup KeysMem \cup KeysTop
Procs == 1..NProcs
Senders == 1..NSenders
KeysL == 1..MaxKeyL

\* ------------------------------------------------------------- constants
\* PageId sentinel "no page" (BTree::new sets root to -1).
NoPage == -1
\* Option::None of an Option<PageId>.
None == -2
\* u64::MAX, the largest value of a timestamp or pin counter (the 64 bit
\* width is scaled to the integers at hand; no clock value comes near it).
U64_MAX == 2147483647
\* The K the tests build their replacer with.
K == 2
\* Frames of the cache of the end-to-end scenarios: 128, and 4 for the
\* small cache.
ManyFrames == 128
Frames == 4
\* BTreeHeader::SIZE, the bytes of a page before the pairs, and the page
\* size of the internal node's page.
BTreeHeader_SIZE == 8
\* table::node: Slot::SIZE (the size of a TupleInfoBuf), Node::HEADER_SIZE
\* and SLOTS_START.
TupleInfoBuf_SIZE == 9
HEADER_SIZE == 12
SLOTS_START == 12
PAGE_SIZE == BTreeHeader_SIZE + MaxPairs * 8

VARIABLES
    root,       \* BTree.root : PageId
    pages,      \* page id -> node stored in that page (allocated pages only)
    nextPage,   \* next id the disk allocates; ids are 0, 1, 2, ...
    last,       \* history: key -> 0 never inserted, -1 last op was delete,
                \*          v > 0 last op was insert(key, v)
    op,         \* history: the last completed call: its name and arguments,
                \* what it returned (ret), and what held when it was made:
                \* prev (last[key]), found (get(key) found the key), almost
                \* (an almost full node lay on the descent path of key)
    nodes,      \* LRUKReplacer.nodes : frame id -> [history, pin]
    current_ts, \* LRUKReplacer.current_ts
    repl_k,     \* LRUKReplacer.k
    rcall,      \* history: the last replacer call: its name and, for evict,
                \* what it returned (ret)
    mem,        \* history: the frames of the last tree call made with a
                \* bounded cache: err (it returned OutOfMemory), peak (most
                \* frames pinned at once), pins (pins it left behind:
                \* page -> count)
    ebuf,       \* the bytes of one slot of a page: a sequence of 0..255
    ecall,      \* history: the last call of the slot codec: its name, the
                \* bytes or the slot it was given (arg), what came of it (ret)
    idata,      \* page.data of the page of an internal node: PAGE_SIZE bytes
    ipairs,     \* InternalNode.pairs of the node last written to that page
    icall,      \* history: the last call of InternalNode: its name and what
                \* it returned (ret)
    tnode,      \* a table::node::Node: next_page_id, tuples_len,
                \* deleted_tuples_len, slots (offset, len, meta.deleted)
    tbuf,       \* the page buffer tnode.page_start points to
    tenc,       \* the PageBuf last made from a node (buf), with that node
    tins,       \* history: the tuples given to the inserts that returned
                \* Some, in order
    tcall,      \* history: the last call on the table node: its name, its
                \* arguments (data, meta or slot_id) and what it returned
    tables,         \* Catalog.tables : table oid -> name of the table
    table_names,    \* Catalog.table_names : table name -> oid
    next_table_oid, \* Catalog.next_table_oid
    indexes,        \* Catalog.indexes : index oid -> [name, oid]
    index_names,    \* Catalog.index_names : table name -> index name -> oid
    next_index_oid, \* Catalog.next_index_oid
    ccall,      \* history: the last call on the catalog: its name and
                \* arguments, what it returned (ret), and for create_index
                \* whether the table existed and the index name was free
                \* on it (pre) and whether the oid was unused (fresh)
    thr,        \* the tasks that call the tree through &self: task ->
                \* [op, key, to, ptr, held, n]: the call it is in and where
                \* (op), the call's arguments, the page it locks next (ptr),
                \* the pages whose guards it holds, oldest first (held), and
                \* the calls it has made (n)
    iguards,    \* history: the write guards the last insert held, one
                \* entry [held, fresh] per acquisition or release: the
                \* pages locked and which of them were allocated by it
    tx,         \* the mpsc channel between the handles (LRUKHandle.tx) and
                \* the actor (LRUKActor.rx): the messages [name, i, from]
                \* sent and not yet received, oldest first
    hnd,        \* the tasks that hold a clone of the handle: task ->
                \* [sent, wait, reply]: history of the messages it sent,
                \* whether it awaits the reply to an evict, and the last
                \* reply it got (<<>> or <<ret>>)
    applied,    \* history: the messages the actor received, in order
    actor       \* "running", or "killed" once the actor's task panicked

\* The slot codec's part of the state.
dvars == <<ebuf, ecall>>
\* The part of the internal node's page.
ivars == <<idata, ipairs, icall>>
\* The table node's part.
nvars == <<tnode, tbuf, tenc, tins, tcall>>
\* The catalog's part.
cvars == <<tables, table_names, next_table_oid, indexes, index_names,
           next_index_oid, ccall>>
\* The state of the components next to the tree and the replacer.
\* The guards' part: the tasks and the guards of the last insert.
lvars == <<thr, iguards>>
\* The part of the replacer's actor and its handles.
avars == <<tx, hnd, applied, actor>>
svars == <<dvars, ivars, nvars, cvars, lvars, avars>>

vars == <<root, pages, nextPage, last, op, nodes, current_ts, repl_k, rcall,
          mem, svars>>
\* The tree's and the replacer's part of the state.
tvars == <<root, pages, nextPage, last, op, mem>>
rvars == <<nodes, current_ts, repl_k, rcall>>

\* ------------------------------------------------------ BTreeSet<Slot>
\* node.values is a BTreeSet of slots ordered (and compared) by key alone:
\* a function from the keys present to the right-hand side of the slot.

MaxOf(S) == CHOOSE x \in S : \A y \in S : y <= x
MinOf(S) == CHOOSE x \in S : \A y \in S : x <= y

\* BTreeSet::insert: keeps the element already there when the keys compare equal.
SetInsert(vals, k, e) ==
    IF k \in DOMAIN vals THEN vals
    ELSE [x \in DOMAIN vals \cup {k} |-> IF x = k THEN e ELSE vals[x]]

\* BTreeSet::replace: the new element takes the place of an equal one.
SetReplace(vals, k, e) ==
    [x \in DOMAIN vals \cup {k} |-> IF x = k THEN e ELSE vals[x]]

\* BTreeSet::remove
SetRemove(vals, k) == [x \in DOMAIN vals \ {k} |-> vals[x]]

\* ------------------------------------------------------------------ Node

\* Node::new(id, max, t, is_root)
new(id, t) == [id |-> id, t |-> t, next |-> NoPage, vals |-> <<>>]

len(node) == Cardinality(DOMAIN node.vals)

\* "A node is almost full when its count equals max - 1"
almost_full(node) == len(node) = MAX - 1

last_key(node) == MaxOf(DOMAIN node.vals)

\* Increment::next for integer keys: n + 1 on an i32, as a build without
\* overflow checks computes it (with the checks the call panics at the
\* greatest key: InsertAbort).
next(key) == IF key = I32_MAX THEN I32_MIN ELSE key + 1

\* Node::split(id): the upper half of the slots moves to the sibling `id`,
\* the lower half stays; a leaf is linked in front of its old successor.
split(node, id) ==
    LET ks   == DOMAIN node.vals
        low  == {k \in ks : Cardinality({j \in ks : j < k}) < len(node) \div 2}
        high == ks \ low
    IN  [node  |-> [node EXCEPT !.vals = [k \in low |-> node.vals[k]],
                                !.next = IF node.t = "Leaf" THEN id ELSE @],
         nnode |-> [id   |-> id,
                    t    |-> node.t,
                    next |-> IF node.t = "Leaf" THEN node.next ELSE NoPage,
                    vals |-> [k \in high |-> node.vals[k]]]]

\* Node::find_child(key): none in a leaf; in an internal node the pointer of
\* the first slot whose key is >= key, none when there is no such slot.
find_child(node, key) ==
    IF node.t = "Leaf" THEN None
    ELSE LET c == {k \in DOMAIN node.vals : k >= key}
         IN  IF c = {} THEN None ELSE node.vals[MinOf(c)]

\* Node::get_separators(other): nothing without a split, else
\* (own last key -> own id, sibling's last key -> sibling's id).
\* `other` is the Option<Node>: <<>> for none, <<n>> for Some(n).
get_separators(node, other) ==
    IF other = <<>> THEN <<>>
    ELSE << [k |-> last_key(node),     p |-> node.id],
            [k |-> last_key(other[1]), p |-> other[1].id] >>

\* ------------------------------------------------------------ page cache
\* The pins of one tree operation, c = [pins, cap, peak]: pins maps a page
\* to the number of handles the operation holds on it, cap is the number of
\* frames the cache can give the operation (its frames less those pinned by
\* other handles), peak the most frames the operation had pinned at once.

cache(cap) == [pins |-> <<>>, cap |-> cap, peak |-> 0]

\* new_page / fetch_page yield a handle unless every frame is pinned; a
\* page that is pinned already is resident and needs no frame.
can_pin(c, p) == p \in DOMAIN c.pins \/ Cardinality(DOMAIN c.pins) < c.cap

\* The handle a successful new_page / fetch_page returns: pin count + 1.
take_pin(c, p) ==
    LET pins == IF p \in DOMAIN c.pins THEN [c.pins EXCEPT ![p] = @ + 1]
                ELSE c.pins @@ (p :> 1)
    IN  [c EXCEPT !.pins = pins,
                  !.peak = IF Cardinality(DOMAIN pins) > @
                           THEN Cardinality(DOMAIN pins) ELSE @]

\* drop_pin of a handle that does not give its pin back.
drop_pin_leaky(c, p) == c

\* The handle goes out of scope: pin count - 1.
drop_pin(c, p) ==
    [c EXCEPT !.pins = IF @[p] = 1 THEN [q \in DOMAIN @ \ {p} |-> @[q]]
                       ELSE [@ EXCEPT ![p] = @ - 1]]

\* ---------------------------------------------------------------- insert

RECURSIVE _insert(_, _, _, _, _, _)

\* leaf_replace with BTreeSet::insert in the place of replace: a slot that
\* is already there keeps its value.
leaf_replace_keeps_old(node, key, value) ==
    [node EXCEPT !.vals = SetInsert(@, key, value)]

\* "Reached leaf node": node.values.replace(Slot(key, Either::Value(value)))
leaf_replace(node, key, value) ==
    [node EXCEPT !.vals = SetReplace(@, key, value)]

\* bump that reinserts the popped pointer under key, not its successor.
bump_to_key(node, key) ==
    LET lk == last_key(node)
        v  == node.vals[lk]
    IN  [node EXCEPT !.vals = SetInsert(SetRemove(@, lk), key, v)]

\* "Bump the last node if no pointer found": pop_last, then insert the popped
\* pointer under key.next().
bump(node, key) ==
    LET lk == last_key(node)
        v  == node.vals[lk]
    IN  [node EXCEPT !.vals = SetInsert(SetRemove(@, lk), next(key), v)]

\* The child split: node.values.replace(s); node.values.replace(os)
absorb(node, sep) ==
    IF sep = <<>> THEN node
    ELSE [node EXCEPT !.vals = SetReplace(SetReplace(@, sep[1].k, sep[1].p),
                                          sep[2].k, sep[2].p)]

\* "Reached leaf node": the leaf n1 with the slot in it is written.
write_leaf(pgs, nid, n1, c) ==
    [pages |-> [pgs EXCEPT ![n1.id] = n1], nid |-> nid, node |-> n1,
     c |-> c, err |-> FALSE]

\* After self._insert(Some(&page), cpage, key, value).await? for the child
\* ptr of n1 returned r: on Err the `?` returns with n1 unwritten, on Ok n1
\* absorbs the separators and is written; child_page goes out of scope.
after_child(n1, ptr, r) ==
    IF r.err
    THEN [pages |-> r.pages, nid |-> r.nid, node |-> n1,
          c |-> drop_pin(r.c, ptr), err |-> TRUE]
    ELSE [pages |-> [r.pages EXCEPT ![n1.id] = absorb(n1, r.sep)],
          nid   |-> r.nid, node |-> absorb(n1, r.sep),
          c     |-> drop_pin(r.c, ptr), err |-> FALSE]

\* fetch_page(ptr) for the child ptr of the internal node n1, and the
\* recursive call; when fetch_page gives nothing `?` returns, n1 unwritten.
into_child(pgs, nid, n1, ptr, key, value, c) ==
    IF ~can_pin(c, ptr)
    THEN [pages |-> pgs, nid |-> nid, node |-> n1, c |-> c, err |-> TRUE]
    ELSE after_child(n1, ptr, _insert(pgs, nid, ptr, key, value, take_pin(c, ptr)))

\* The internal node with a slot that covers key: as it is, or with its
\* last slot bumped.
covering(node, key) ==
    IF find_child(node, key) = None THEN bump(node, key) ELSE node

\* The block "Find and insert" of BTree::_insert on the decoded node `node`
\* (the original node, lines 163-202, or the new sibling, lines 111-151):
\* a leaf takes the slot; an internal node finds the child, bumping its last
\* slot to key.next() when no slot covers the key, recurses, absorbs the
\* separators of a split child, and is written to its page.
\* c are the pins the operation holds.  Result: [pages, nid, node, c, err].
find_and_insert(pgs, nid, node, key, value, c) ==
    IF find_child(node, key) = None /\ node.t = "Leaf"
    THEN write_leaf(pgs, nid, leaf_replace(node, key, value), c)
    ELSE into_child(pgs, nid, covering(node, key),
                    find_child(covering(node, key), key), key, value, c)

\* What _insert returns when find-and-insert in the new sibling (page nid)
\* ended with r: the separators of the original node `kept` and the sibling.
after_sibling(kept, nid, r) ==
    [pages |-> r.pages, nid |-> r.nid,
     sep   |-> IF r.err THEN <<>> ELSE get_separators(kept, <<r.node>>),
     c     |-> drop_pin(r.c, nid),
     err   |-> r.err]

\* What _insert returns when find-and-insert in the original node ended
\* with r: its separators with the sibling `other` (<<>> without a split).
after_original(other, r) ==
    [pages |-> r.pages, nid |-> r.nid,
     sep   |-> IF r.err THEN <<>> ELSE get_separators(r.node, other),
     c     |-> r.c,
     err   |-> r.err]

\* split_insert without the write of the kept half before drop(page).
split_insert_unwritten(pgs, nid, pid, key, value, c1, sp) ==
    IF key >= last_key(sp.node)
    THEN after_sibling(sp.node, nid,
             find_and_insert(pgs, nid + 1, sp.nnode, key, value, c1))
    ELSE after_original(<<sp.nnode>>,
             find_and_insert([pgs EXCEPT ![nid] = sp.nnode], nid + 1,
                             sp.node, key, value, drop_pin(c1, nid)))

\* The split branch of _insert: sp the two halves, c1 the pins with the
\* handle new_page of the sibling page nid.
split_insert(pgs, nid, pid, key, value, c1, sp) ==
    IF key >= last_key(sp.node)
    THEN after_sibling(sp.node, nid,
             find_and_insert([pgs EXCEPT ![pid] = sp.node], nid + 1,
                             sp.nnode, key, value, c1))
    \* new_page goes out of scope at the end of the `if` block
    ELSE after_original(<<sp.nnode>>,
             find_and_insert([pgs EXCEPT ![nid] = sp.nnode], nid + 1,
                             sp.node, key, value, drop_pin(c1, nid)))

\* BTree::_insert(prev_page, page, key, value) on the page `pid`, whose pin
\* the caller holds, with the pins c.
\* Result: [pages, nid, sep, c, err]: sep the separators handed to the
\* caller, err whether the call returned Err(OutOfMemory).
_insert(pgs, nid, pid, key, value, c) ==
    IF almost_full(pgs[pid])
    THEN IF ~can_pin(c, nid)
         \* new_page() gave nothing
         THEN [pages |-> pgs, nid |-> nid + 1, sep |-> <<>>, c |-> c,
               err |-> TRUE]
         ELSE split_insert(pgs @@ (nid :> new(nid, pgs[pid].t)), nid, pid,
                           key, value, take_pin(c, nid), split(pgs[pid], nid))
    ELSE after_original(<<>>, find_and_insert(pgs, nid, pgs[pid], key, value, c))

\* The end of BTree::insert, r what _insert returned for the root page rid:
\* a new root for the separators of a split root.
new_root(rid, r) ==
    IF r.err \/ r.sep = <<>>
    THEN [root |-> rid, pages |-> r.pages, nid |-> r.nid,
          c |-> drop_pin(r.c, rid), err |-> r.err]
    ELSE IF ~can_pin(r.c, r.nid)
    \* new_page() for the new root gave nothing
    THEN [root |-> rid, pages |-> r.pages, nid |-> r.nid + 1,
          c |-> drop_pin(r.c, rid), err |-> TRUE]
    ELSE [root  |-> r.nid,
          pages |-> r.pages @@
                    (r.nid :> [new(r.nid, "Internal") EXCEPT !.vals =
                                 SetInsert(SetInsert(@, r.sep[1].k, r.sep[1].p),
                                           r.sep[2].k, r.sep[2].p)]),
          nid   |-> r.nid + 1,
          c     |-> drop_pin(drop_pin(take_pin(r.c, r.nid), r.nid), rid),
          err   |-> FALSE]

\* BTree::insert(key, value) with the pins c: the state after the call, as
\* [root, pages, nid, c, err].  self.root is set to the root page's id
\* before _insert runs, and to the new root's id once its page is there.
insert(key, value, c) ==
    IF root = NoPage
    THEN IF ~can_pin(c, nextPage)
         \* new_page() gave nothing
         THEN [root |-> root, pages |-> pages, nid |-> nextPage + 1, c |-> c,
               err |-> TRUE]
         ELSE new_root(nextPage,
                  _insert(pages @@ (nextPage :> new(nextPage, "Leaf")),
                          nextPage + 1, nextPage, key, value,
                          take_pin(c, nextPage)))
    ELSE IF ~can_pin(c, root)
         \* fetch_page(root) gave nothing
         THEN [root |-> root, pages |-> pages, nid |-> nextPage, c |-> c,
               err |-> TRUE]
         ELSE new_root(root,
                  _insert(pages, nextPage, root, key, value, take_pin(c, root)))

\* ------------------------------------------------------------------- get

\* BTree::_get(key, ptr): the value stored with key, None when there is none.
RECURSIVE _get(_, _)
_get(key, ptr) ==
    LET node == pages[ptr]
        c    == find_child(node, key)
    IN  IF c # None THEN _get(key, c)
        ELSE IF node.t = "Leaf"
             THEN IF key \in DOMAIN node.vals THEN node.vals[key] ELSE None
             ELSE None

\* BTree::get(key)
get(key) == IF root = NoPage THEN None ELSE _get(key, root)

\* ---------------------------------------------------------------- delete

\* leaf_remove that also takes the emptied leaf out of the sibling chain.
leaf_remove_unlinking(node, key) ==
    LET vals == SetRemove(node.vals, key)
    IN  [node EXCEPT !.vals = vals,
                     !.next = IF vals = <<>> THEN NoPage ELSE @]

\* node.values.remove(&slot) in the leaf: the node written back.
leaf_remove(node, key) ==
    [node EXCEPT !.vals = SetRemove(@, key)]

\* BTree::_delete(key, ptr) on the pages pgs: [pages, ret].
RECURSIVE _delete(_, _, _)
_delete(pgs, key, ptr) ==
    LET node == pgs[ptr]
        c    == find_child(node, key)
    IN  IF c # None THEN _delete(pgs, key, c)
        ELSE IF node.t = "Leaf"
             THEN IF key \in DOMAIN node.vals
                  THEN [pages |-> [pgs EXCEPT ![ptr] = leaf_remove(node, key)],
                        ret   |-> TRUE]
                  ELSE [pages |-> pgs, ret |-> FALSE]
             ELSE [pages |-> pgs, ret |-> FALSE]

\* BTree::delete(key)
delete(key) ==
    IF root = NoPage THEN [pages |-> pages, ret |-> FALSE]
    ELSE _delete(pages, key, root)

\* ------------------------------------------------------------ scan, range

\* Slots of a leaf in key order, as a sequence of <<key, value>>.
RECURSIVE SlotsFrom(_, _)
SlotsFrom(vals, ks) ==
    IF ks = {} THEN <<>>
    ELSE LET k == MinOf(ks) IN <<<<k, vals[k]>>>> \o SlotsFrom(vals, ks \ {k})

\* BTree::first(ptr): the leftmost leaf under ptr.
RECURSIVE first(_)
first(ptr) ==
    LET node == pages[ptr]
    IN  IF node.t = "Leaf" THEN ptr
        ELSE first(node.vals[MinOf(DOMAIN node.vals)])

\* The loop of BTree::scan from the leaf cur: every slot of the leaf, then
\* the leaf node.next, until next is -1.
RECURSIVE scan_from(_)
scan_from(cur) ==
    IF cur = NoPage THEN <<>>
    ELSE LET node == pages[cur]
         IN  SlotsFrom(node.vals, DOMAIN node.vals) \o scan_from(node.next)

\* BTree::scan(): [panic, out].  first(self.root) starts with
\* assert!(ptr != -1), which fails on a tree without a root.
scan ==
    IF root = NoPage THEN [panic |-> TRUE, out |-> <<>>]
    ELSE [panic |-> FALSE, out |-> scan_from(first(root))]

\* BTree::get_ptr(key, ptr): the leaf the descent for key ends in.
RECURSIVE get_ptr(_, _)
get_ptr(key, ptr) ==
    LET node == pages[ptr]
        c    == find_child(node, key)
    IN  IF c # None THEN get_ptr(key, c)
        ELSE IF node.t = "Leaf" THEN ptr ELSE None

\* BTree::_range(prev_page, page, acc, from, to) from the leaf cur.
RECURSIVE _range(_, _, _)
_range(cur, from, to) ==
    LET node == pages[cur]
        \* skip_while(k < from) . take_while(k <= to) over the ordered slots
        ks   == {k \in DOMAIN node.vals : k >= from /\ k <= to}
        got  == SlotsFrom(node.vals, ks)
    IN  IF got = <<>> THEN <<>>
        ELSE IF node.next = NoPage THEN got
        ELSE got \o _range(node.next, from, to)

\* BTree::range(from, to): [panic, out].  get_ptr(from, self.root) starts
\* with assert!(ptr != -1).
range(from, to) ==
    IF root = NoPage THEN [panic |-> TRUE, out |-> <<>>]
    ELSE LET cur == get_ptr(from, root)
         IN  [panic |-> FALSE,
              out   |-> IF cur = None THEN <<>> ELSE _range(cur, from, to)]

\* ----------------------------------------------------- pins of the reads
\* What get, delete, scan and range ask of the cache, with the pins c:
\* [c, err], err when a fetch_page gave nothing (the call then returns
\* OutOfMemory before it has written anything).

\* BTree::_get, _delete and get_ptr: the handle of fetch_page(ptr) lives
\* until the call for the child has returned.
RECURSIVE descend_mem(_, _, _)
descend_mem(key, ptr, c) ==
    IF ~can_pin(c, ptr) THEN [c |-> c, err |-> TRUE]
    ELSE LET c1 == take_pin(c, ptr)
             ch == find_child(pages[ptr], key)
         IN  IF ch # None
             THEN LET r == descend_mem(key, ch, c1)
                  IN  [c |-> drop_pin(r.c, ptr), err |-> r.err]
             ELSE [c |-> drop_pin(c1, ptr), err |-> FALSE]

\* BTree::get and BTree::delete: nothing is fetched without a root.
get_mem(key, c) ==
    IF root = NoPage THEN [c |-> c, err |-> FALSE]
    ELSE descend_mem(key, root, c)

\* BTree::first
RECURSIVE first_mem(_, _)
first_mem(ptr, c) ==
    IF ~can_pin(c, ptr) THEN [c |-> c, err |-> TRUE]
    ELSE LET c1   == take_pin(c, ptr)
             node == pages[ptr]
         IN  IF node.t = "Leaf" THEN [c |-> drop_pin(c1, ptr), err |-> FALSE]
             ELSE LET r == first_mem(node.vals[MinOf(DOMAIN node.vals)], c1)
                  IN  [c |-> drop_pin(r.c, ptr), err |-> r.err]

\* The loop of BTree::scan: the handle of a leaf is dropped at the end of
\* its iteration.
RECURSIVE scan_loop_mem(_, _)
scan_loop_mem(cur, c) ==
    IF cur = NoPage THEN [c |-> c, err |-> FALSE]
    ELSE IF ~can_pin(c, cur) THEN [c |-> c, err |-> TRUE]
    ELSE scan_loop_mem(pages[cur].next, drop_pin(take_pin(c, cur), cur))

\* BTree::scan on a tree with a root
scan_mem(c) ==
    LET f == first_mem(root, c)
    IN  IF f.err THEN f ELSE scan_loop_mem(first(root), f.c)

\* BTree::_range on the leaf cur, pinned by the caller: the handle of
\* fetch_page(node.next) lives until the call for that leaf has returned.
RECURSIVE _range_mem(_, _, _, _)
_range_mem(cur, from, to, c) ==
    LET node == pages[cur]
        ks   == {x \in DOMAIN node.vals : x >= from /\ x <= to}
    IN  IF ks = {} \/ node.next = NoPage THEN [c |-> c, err |-> FALSE]
        ELSE IF ~can_pin(c, node.next) THEN [c |-> c, err |-> TRUE]
        ELSE LET r == _range_mem(node.next, from, to, take_pin(c, node.next))
             IN  [c |-> drop_pin(r.c, node.next), err |-> r.err]

\* BTree::range on a tree with a root
range_mem(from, to, c) ==
    LET g   == descend_mem(from, root, c)
        cur == get_ptr(from, root)
    IN  IF g.err \/ cur = None THEN g
        ELSE IF ~can_pin(g.c, cur) THEN [c |-> g.c, err |-> TRUE]
        ELSE LET r == _range_mem(cur, from, to, take_pin(g.c, cur))
             IN  [c |-> drop_pin(r.c, cur), err |-> r.err]

\* ------------------------------------------------- the state, observed

\* The pages the descent for key visits from ptr (the path of _get).
RECURSIVE descent(_, _)
descent(key, ptr) ==
    LET c == find_child(pages[ptr], key)
    IN  IF c # None THEN {ptr} \cup descent(key, c) ELSE {ptr}

path(key) == IF root = NoPage THEN {} ELSE descent(key, root)

\* Pages reachable from ptr through child pointers.
RECURSIVE reach(_)
reach(ptr) ==
    LET node == pages[ptr]
    IN  IF node.t = "Leaf" THEN {ptr}
        ELSE {ptr} \cup UNION {reach(node.vals[k]) : k \in DOMAIN node.vals}

tree == IF root = NoPage THEN {} ELSE reach(root)

\* ---------------------------------------------------------- LRUKReplacer

\* pin += 1 and pin -= 1 on a u64, as a build without overflow checks
\* computes them (with the checks the call panics and the replacer is gone:
\* nothing after it is observed).
u64_inc(x) == IF x = U64_MAX THEN 0 ELSE x + 1
u64_dec(x) == IF x = 0 THEN U64_MAX ELSE x - 1

\* LRUKNode::new(i, ts)
LRUKNode_new(i, ts) == [i |-> i, history |-> <<ts>>, pin |-> 0]

\* get_k_distance reaching one access further back: history[len - 1 - k]
\* (0-based), which needs more than k accesses.
get_k_distance_one_further(node, kk) ==
    LET n == Len(node.history)
    IN  IF n <= kk THEN None
        ELSE node.history[n] - node.history[n - kk]

\* LRUKNode::get_k_distance(k): None with fewer than k accesses, else the
\* latest timestamp minus history[len - k] (0-based).
get_k_distance(node, kk) ==
    LET n == Len(node.history)
    IN  IF n < kk THEN None
        ELSE node.history[n] - node.history[(n - kk) + 1]

\* evict_visit with the test of the pin counter left out.
evict_visit_pinned_too(acc, id) ==
    LET node == nodes[id]
        d    == get_k_distance(node, repl_k)
    IN  IF d # None /\ d > acc.max[2] THEN [acc EXCEPT !.max = <<id, d>>]
        ELSE IF d = None THEN [acc EXCEPT !.single_access = Append(@, node)]
        ELSE acc

\* The body of the first loop of evict for the map entry `id`:
\* acc = [max, single_access].
evict_visit(acc, id) ==
    LET node == nodes[id]
        d    == get_k_distance(node, repl_k)
    IN  IF node.pin # 0 THEN acc
        ELSE IF d # None /\ d > acc.max[2] THEN [acc EXCEPT !.max = <<id, d>>]
        ELSE IF d = None THEN [acc EXCEPT !.single_access = Append(@, node)]
        ELSE acc

\* earliest_visit preferring the later timestamp.
earliest_visit_latest(earliest, node) ==
    LET ts == node.history[Len(node.history)]
    IN  IF earliest[2] = U64_MAX \/ ts > earliest[2] THEN <<node.i, ts>> ELSE earliest

\* The body of the second loop of evict for `node` of single_access.
earliest_visit(earliest, node) ==
    LET ts == node.history[Len(node.history)]
    IN  IF ts < earliest[2] THEN <<node.i, ts>> ELSE earliest

\* for (id, node) in &self.nodes, in the order `order` the map yields.
RECURSIVE evict_loop(_, _, _)
evict_loop(order, n, acc) ==
    IF n > Len(order) THEN acc
    ELSE evict_loop(order, n + 1, evict_visit(acc, order[n]))

\* for node in &single_access
RECURSIVE earliest_loop(_, _, _)
earliest_loop(single_access, n, earliest) ==
    IF n > Len(single_access) THEN earliest
    ELSE earliest_loop(single_access, n + 1,
                       earliest_visit(earliest, single_access[n]))

\* LRUKReplacer::evict() when the HashMap iterates in the order `order`.
evict(order) ==
    LET acc == evict_loop(order, 1, [max |-> <<0, 0>>, single_access |-> <<>>])
    IN  IF acc.max[2] # 0 THEN acc.max[1]
        ELSE IF acc.single_access = <<>> THEN None
        ELSE earliest_loop(acc.single_access, 1, <<0, U64_MAX>>)[1]

\* The orders in which a HashMap may yield its entries: every permutation
\* of its keys (the hasher is seeded per map).
Orders ==
    LET D == DOMAIN nodes
        n == Cardinality(D)
    IN  {o \in [1..n -> D] : \A i, j \in 1..n : i # j => o[i] # o[j]}

\* --------------------------------------------------------------- actions

\* LRUKReplacer::new(k)
LRUKReplacer_new(kk) ==
    /\ nodes = <<>>
    /\ current_ts = 0
    /\ repl_k = kk
    /\ rcall = [name |-> "new", ret |-> None]

\* BTree::new(pc, max)
BTree_new ==
    /\ root = NoPage
    /\ pages = <<>>
    /\ nextPage = 0
    /\ last = [x \in AllKeys |-> 0]
    /\ op = [name |-> "new", key |-> 0, value |-> 0, ret |-> FALSE,
             prev |-> 0, found |-> FALSE, almost |-> FALSE]
    /\ mem = [err |-> FALSE, peak |-> 0, pins |-> <<>>]

\* No slot bytes at hand, no call of the slot codec made.
Slot_none ==
    /\ ebuf = <<>>
    /\ ecall = [name |-> "none", arg |-> <<>>, ret |-> <<>>]

\* A newly allocated page, zero-filled, no InternalNode call made.
Page_zeroed ==
    /\ idata = [x \in 1..PAGE_SIZE |-> 0]
    /\ ipairs = <<>>
    /\ icall = [name |-> "none", ret |-> <<>>]

\* The table node of test_insert: an empty node over a zeroed buffer.
Node_empty ==
    /\ tnode = [next_page_id |-> 0, tuples_len |-> 0,
                deleted_tuples_len |-> 0, slots |-> <<>>]
    /\ tbuf = [x \in 1..TablePageSize |-> 0]
    /\ tenc = [buf |-> <<>>, node |-> <<>>]
    /\ tins = <<>>
    /\ tcall = [name |-> "none", arg |-> <<>>, ret |-> <<>>]

\* Catalog::new(pc)
Catalog_new ==
    /\ tables = <<>>
    /\ table_names = <<>>
    /\ next_table_oid = 0
    /\ indexes = <<>>
    /\ index_names = <<>>
    /\ next_index_oid = 0
    /\ ccall = [name |-> "new", t |-> 0, i |-> 0, ret |-> <<>>,
                pre |-> FALSE, fresh |-> FALSE]

\* No task is in a call of the tree, no insert was made.
Tasks_idle ==
    /\ thr = [p \in Procs |-> [op |-> "idle", key |-> 0, to |-> 0,
                                ptr |-> NoPage, held |-> <<>>, n |-> 0]]
    /\ iguards = {}

\* LRUKHandle::new(k): an empty channel, the actor spawned, no message
\* sent by any task.
LRUKHandle_new ==
    /\ tx = <<>>
    /\ hnd = [s \in Senders |-> [sent |-> <<>>, wait |-> FALSE, reply |-> <<>>]]
    /\ applied = <<>>
    /\ actor = "running"

\* The components next to the tree and the replacer, untouched.
Rest_new ==
    /\ Slot_none /\ Page_zeroed /\ Node_empty /\ Catalog_new /\ Tasks_idle
    /\ LRUKHandle_new

\* The set-up of the tests: a replacer with K = 2 under the tree's cache.
Init == BTree_new /\ LRUKReplacer_new(K) /\ Rest_new

\* The state after a call btree.insert(k, v) that returned Ok(()) with r.
InsertOk(k, v, r) ==
    /\ r.nid <= MaxPages
    /\ ~r.err
    /\ root' = r.root
    /\ pages' = r.pages
    /\ nextPage' = r.nid
    /\ last' = [last EXCEPT ![k] = v]
    /\ op' = [name |-> "insert", key |-> k, value |-> v, ret |-> TRUE,
              prev   |-> last[k],
              found  |-> get(k) # None,
              almost |-> \E p \in path(k) : almost_full(pages[p])]
    /\ UNCHANGED <<rvars, svars, mem>>

\* A call btree.insert(k, v) that returns Ok(()), the cache large.
Insert(k, v) == InsertOk(k, v, insert(k, v, cache(ManyFrames)))

\* A call btree.delete(k) that returns Ok(ret).
Delete(k) ==
    LET r == delete(k)
    IN  /\ pages' = r.pages
        /\ last' = [last EXCEPT ![k] = -1]
        /\ op' = [name |-> "delete", key |-> k, value |-> 0, ret |-> r.ret,
                  prev   |-> last[k],
                  found  |-> get(k) # None,
                  almost |-> \E p \in path(k) : almost_full(pages[p])]
        /\ UNCHANGED <<root, nextPage, mem>>
        /\ UNCHANGED <<rvars, svars>>

Next ==
    \/ \E k \in Keys, v \in Vals : Insert(k, v)
    \/ \E k \in Keys : Delete(k)

Spec == Init /\ [][Next]_vars

\* The insert-only workload of test_btree_scan: distinct keys of a wider
\* range in any order, each inserted once, no delete.
NextIns == \E k \in KeysIns : last[k] = 0 /\ Insert(k, 1)

SpecIns == Init /\ [][NextIns]_vars

\* The insert of key computes key.next() at the greatest key: the root is
\* an internal node and none of its separators reaches the key.
next_overflows(key) ==
    /\ key = I32_MAX
    /\ root # NoPage /\ pages[root].t = "Internal"
    /\ find_child(pages[root], key) = None

\* A call btree.insert(k, v) whose bump computes key.next() at the greatest
\* key: with overflow checks the addition panics; without them the popped
\* slot goes under i32::MIN, the find_child(key) that follows finds no
\* slot and the call panics on unreachable!().  The call returns nothing
\* and the tree is not used again.
InsertAbort(k, v) ==
    /\ next_overflows(k)
    /\ op' = [name |-> "insert", key |-> k, value |-> v, ret |-> FALSE,
              prev   |-> last[k],
              found  |-> get(k) # None,
              almost |-> \E p \in path(k) : almost_full(pages[p])]
    /\ UNCHANGED <<root, pages, nextPage, last, mem, rvars, svars>>

\* Distinct keys inserted in any order, the greatest key of the key type
\* among them.
NextTop ==
    /\ op.name = "insert" => op.ret
    /\ \E k \in KeysTop :
           /\ last[k] = 0
           /\ \/ ~next_overflows(k) /\ Insert(k, 1)
              \/ InsertAbort(k, 1)

SpecTop == Init /\ [][NextTop]_vars

\* -------------------------------------- tree calls with a bounded cache

\* What mem records of a call that ended with the pins r.c.
MemOf(r) == [err |-> r.err, peak |-> r.c.peak, pins |-> r.c.pins]

\* The state after a call btree.insert(k, v) that ended with r, Ok(()) or
\* Err(OutOfMemory).  lim bounds the pages of the disk.
InsertRet(k, v, r, lim) ==
    /\ r.nid <= lim
    /\ root' = r.root
    /\ pages' = r.pages
    /\ nextPage' = r.nid
    /\ last' = IF r.err THEN last ELSE [last EXCEPT ![k] = v]
    /\ op' = [name |-> "insert", key |-> k, value |-> v, ret |-> ~r.err,
              prev   |-> last[k],
              found  |-> get(k) # None,
              almost |-> \E p \in path(k) : almost_full(pages[p])]
    /\ mem' = MemOf(r)
    /\ UNCHANGED <<rvars, svars>>

\* btree.insert(k, v) when the cache can give the call cap frames.
InsertM(k, v, cap, lim) == InsertRet(k, v, insert(k, v, cache(cap)), lim)

\* The state after a call btree.delete(k) whose descent ended with the pins
\* m and whose removal gives r: Ok(bool) or Err(OutOfMemory); the one write
\* of _delete comes after its last fetch_page.
DeleteRet(k, m, r) ==
    /\ pages' = IF m.err THEN pages ELSE r.pages
    /\ last' = IF m.err THEN last ELSE [last EXCEPT ![k] = -1]
    /\ op' = [name |-> "delete", key |-> k, value |-> 0,
              ret    |-> ~m.err /\ r.ret,
              prev   |-> last[k],
              found  |-> get(k) # None,
              almost |-> \E p \in path(k) : almost_full(pages[p])]
    /\ mem' = MemOf(m)
    /\ UNCHANGED <<root, nextPage, rvars, svars>>

\* btree.delete(k) with cap frames.
DeleteM(k, cap) == DeleteRet(k, get_mem(k, cache(cap)), delete(k))

\* A call that reads: btree.get(k), btree.scan(), btree.range(from, to).
Read(name, m) ==
    /\ op' = [name |-> name, key |-> 0, value |-> 0, ret |-> ~m.err,
              prev |-> 0, found |-> FALSE, almost |-> FALSE]
    /\ mem' = MemOf(m)
    /\ UNCHANGED <<root, pages, nextPage, last, rvars, svars>>

GetM(k, cap) == Read("get", get_mem(k, cache(cap)))

ScanM(cap) == root # NoPage /\ Read("scan", scan_mem(cache(cap)))

RangeM(from, to, cap) ==
    root # NoPage /\ Read("range", range_mem(from, to, cache(cap)))

\* Calls on a tree whose cache has Frames frames, of which other handles
\* of the caller pin any number but all: distinct keys are inserted, the
\* lowest keys deleted, the tree read.
NextOOM ==
    \E cap \in 1..Frames :
        \/ \E x \in KeysOOM : last[x] = 0 /\ InsertM(x, 1, cap, MaxPages)
        \/ \E x \in 1..MaxKeyDel : DeleteM(x, cap)
        \/ \E x \in KeysOOM : GetM(x, cap)
        \/ ScanM(cap)
        \/ \E x \in KeysOOM : RangeM(x, MaxKeyOOM, cap)

SpecOOM == Init /\ [][NextOOM]_vars

\* Scenario 6: distinct keys inserted in any order in a tree whose cache
\* has Frames frames, all free between the calls.
NextMem == \E x \in KeysMem : last[x] = 0 /\ InsertM(x, 1, Frames, MaxPagesMem)

SpecMem == Init /\ [][NextMem]_vars

\* ----------------------------------------------- actions of the replacer

\* LRUKReplacer::record_access(i, _) on the replacer's own state.
record_access(i) ==
    /\ nodes' = IF i \in DOMAIN nodes
                THEN [nodes EXCEPT ![i].history = Append(@, current_ts)]
                ELSE nodes @@ (i :> LRUKNode_new(i, current_ts))
    /\ current_ts' = current_ts + 1
    /\ rcall' = [name |-> "record_access", ret |-> None]
    /\ UNCHANGED repl_k

\* LRUKReplacer::pin(i): nothing happens to a frame that is not tracked.
pin(i) ==
    /\ nodes' = IF i \in DOMAIN nodes
                THEN [nodes EXCEPT ![i].pin = u64_inc(@)]
                ELSE nodes
    /\ rcall' = [name |-> "pin", ret |-> None]
    /\ UNCHANGED <<current_ts, repl_k>>

\* LRUKReplacer::unpin(i)
unpin(i) ==
    /\ nodes' = IF i \in DOMAIN nodes
                THEN [nodes EXCEPT ![i].pin = u64_dec(@)]
                ELSE nodes
    /\ rcall' = [name |-> "unpin", ret |-> None]
    /\ UNCHANGED <<current_ts, repl_k>>

\* LRUKReplacer::remove(i): the entry goes, pinned or not.
remove(i) ==
    /\ nodes' = [f \in DOMAIN nodes \ {i} |-> nodes[f]]
    /\ rcall' = [name |-> "remove", ret |-> None]
    /\ UNCHANGED <<current_ts, repl_k>>

\* LRUKReplacer::evict(): the map iterates in some order; nothing is
\* removed.  ret is what the call returns.
evict_call(ret) ==
    /\ \E o \in Orders : ret = evict(o)
    /\ rcall' = [name |-> "evict", ret |-> ret]
    /\ UNCHANGED <<nodes, current_ts, repl_k>>

\* replacer.record_access(i, _)
RecordAccess(i) ==
    /\ current_ts < MaxTs
    /\ record_access(i)
    /\ UNCHANGED <<tvars, svars>>

\* replacer.pin(i): nothing happens to a frame that is not tracked.
Pin(i) ==
    /\ i \in DOMAIN nodes => (nodes[i].pin < MaxPin \/ nodes[i].pin = U64_MAX)
    /\ pin(i)
    /\ UNCHANGED <<tvars, svars>>

\* replacer.unpin(i); a counter that wrapped below zero is not lowered further.
Unpin(i) ==
    /\ i \in DOMAIN nodes => nodes[i].pin <= MaxPin
    /\ unpin(i)
    /\ UNCHANGED <<tvars, svars>>

\* replacer.remove(i): the entry goes, pinned or not.
Remove(i) ==
    /\ remove(i)
    /\ UNCHANGED <<tvars, svars>>

\* replacer.evict(): the map iterates in some order; nothing is removed.
Evict ==
    \E ret \in FrameIds \cup {None} :
        /\ evict_call(ret)
        /\ UNCHANGED <<tvars, svars>>

NextRep ==
    \/ \E i \in FrameIds : RecordAccess(i)
    \/ \E i \in FrameIds : Pin(i)
    \/ \E i \in FrameIds : Unpin(i)
    \/ \E i \in FrameIds : Remove(i)
    \/ Evict

\* A replacer built with any K of 1..MaxK, and calls in any order.
InitRep == BTree_new /\ Rest_new /\ \E kk \in 1..MaxK : LRUKReplacer_new(kk)

SpecRep == InitRep /\ [][NextRep]_vars


\* ------------------------------------------------- slot codec (slot.rs)
\* Keys and values are i32: four bytes each.
size_of_K == 4
size_of_V == 4
\* Either::<V>::SIZE
Either_SIZE == 1 + size_of_V
\* Slot::<K, V>::SIZE
Slot_SIZE == size_of_K + Either_SIZE

\* Bytes i..j of the slice b (the slice b[i-1..j] of the source).
Slice(b, i, j) == [x \in 1..(j - i + 1) |-> b[x + i - 1]]

\* i32::from_be_bytes of four bytes: big-endian two's complement.
i32_from_be_bytes(b) ==
    (IF b[1] >= 128 THEN b[1] - 256 ELSE b[1]) * 16777216
        + b[2] * 65536 + b[3] * 256 + b[4]

\* i32::to_be_bytes
i32_to_be_bytes(x) ==
    << (x \div 16777216) % 256, (x \div 65536) % 256, (x \div 256) % 256,
       x % 256 >>

\* A call that did not return: assert!, unwrap or unreachable! fired.
Panicked == [kind |-> "panic"]

\* Either::<V>::from(&[u8]): the flag byte, then the value or the pointer.
Either_from(value) ==
    IF Len(value) # Either_SIZE THEN Panicked
    ELSE IF value[1] = 0
    THEN [kind |-> "Value",
          v    |-> i32_from_be_bytes(Slice(value, 2, Len(value)))]
    ELSE IF value[1] = 1
    THEN [kind |-> "Pointer",
          v    |-> i32_from_be_bytes(Slice(value, 2, Len(value)))]
    ELSE Panicked

\* Slot::<K, V>::from(&[u8]): the key, then the Either.
Slot_from(value) ==
    IF Len(value) # Slot_SIZE THEN Panicked
    ELSE IF Either_from(Slice(value, size_of_K + 1, Len(value))) = Panicked
    THEN Panicked
    ELSE [kind |-> "Slot",
          k    |-> i32_from_be_bytes(Slice(value, 1, size_of_K)),
          e    |-> Either_from(Slice(value, size_of_K + 1, Len(value)))]

\* BytesMut::from(Either<V>)
Either_into(e) ==
    <<IF e.kind = "Value" THEN 0 ELSE 1>> \o i32_to_be_bytes(e.v)

\* BytesMut::from(Slot<K, V>)
Slot_into(slot) == i32_to_be_bytes(slot.k) \o Either_into(slot.e)

\* The numbers of the slots and the flag bytes of the buffers at hand.
Numbers == {-1} \cup (0..MaxNum)
Flags == 0..MaxFlag

\* The slots at hand.
Slots ==
    [kind : {"Slot"}, k : Numbers,
     e : [kind : {"Value", "Pointer"}, v : Numbers]]

\* Slot bytes as a page may hold them: a key, any flag byte, a value, and
\* the buffer whole, one byte short or one byte long.
SlotBufs ==
    {i32_to_be_bytes(key) \o <<f>> \o i32_to_be_bytes(v) \o tail :
        key \in Numbers, f \in Flags, v \in Numbers, tail \in {<<>>, <<0>>}}
    \cup
    {i32_to_be_bytes(key) \o <<f>> \o Slice(i32_to_be_bytes(v), 1, 3) :
        key \in Numbers, f \in Flags, v \in Numbers}

\* A node is decoded: Slot::from on the bytes of one of its slots.
SlotFrom ==
    /\ ecall' = [name |-> "from", arg |-> ebuf, ret |-> Slot_from(ebuf)]
    /\ UNCHANGED <<ebuf, ivars, nvars, cvars, avars, lvars, tvars, rvars>>

\* A node is encoded: BytesMut::from(slot) gives the bytes of a slot.
SlotInto(slot) ==
    /\ ebuf' = Slot_into(slot)
    /\ ecall' = [name |-> "into", arg |-> slot, ret |-> Slot_into(slot)]
    /\ UNCHANGED <<ivars, nvars, cvars, avars, lvars, tvars, rvars>>

NextSlot ==
    \/ SlotFrom
    \/ \E slot \in Slots : SlotInto(slot)

\* The bytes of a slot as some page holds them, well formed or not.
InitSlot ==
    /\ BTree_new /\ LRUKReplacer_new(K)
    /\ ebuf \in SlotBufs
    /\ ecall = [name |-> "none", arg |-> <<>>, ret |-> <<>>]
    /\ Page_zeroed /\ Node_empty /\ Catalog_new /\ Tasks_idle
    /\ LRUKHandle_new

SpecSlot == InitSlot /\ [][NextSlot]_vars


\* ------------------------------------- internal node codec (internal.rs)
\* size_of::<K>() + size_of::<PageID>() of a Pair2<K, PageID>
p_size == size_of_K + 4

\* get_bytes!(data, pos, n): the n bytes at offset pos (the first byte of a
\* page has offset 0).
get_bytes(data, pos, n) == Slice(data, pos + 1, pos + n)

\* data with the bytes b written at offset pos.
write_to(data, pos, b) ==
    [x \in DOMAIN data |->
        IF x > pos /\ x <= pos + Len(b) THEN b[x - pos] ELSE data[x]]

RECURSIVE InternalNode_new_from(_, _)
\* The loop of InternalNode::new from offset pos on: a pair is read, and
\* pushed unless its page id is 0. (The page after the header is a whole
\* number of pairs, so no read runs past the page.)
InternalNode_new_from(data, pos) ==
    IF ~(pos < PAGE_SIZE) THEN <<>>
    ELSE IF i32_from_be_bytes(get_bytes(data, pos + size_of_K, 4)) = 0
    THEN InternalNode_new_from(data, pos + p_size)
    ELSE << [a |-> i32_from_be_bytes(get_bytes(data, pos, size_of_K)),
             b |-> i32_from_be_bytes(get_bytes(data, pos + size_of_K, 4))] >>
         \o InternalNode_new_from(data, pos + p_size)

\* InternalNode::new(data): the pairs of the node decoded from a page.
InternalNode_new(data) == InternalNode_new_from(data, BTreeHeader_SIZE)

RECURSIVE write_data_from(_, _, _, _)
\* The loop of InternalNode::write_data from the i-th pair on: it stops at
\* the first pair with pos + p_size >= PAGE_SIZE.
write_data_from(pairs, i, data, pos) ==
    IF i > Len(pairs) \/ pos + p_size >= PAGE_SIZE THEN data
    ELSE write_data_from(pairs, i + 1,
             write_to(write_to(data, pos, i32_to_be_bytes(pairs[i].a)),
                      pos + size_of_K, i32_to_be_bytes(pairs[i].b)),
             pos + p_size)

\* InternalNode::write_data(page): the pairs are written over page.data.
write_data(pairs, data) == write_data_from(pairs, 1, data, BTreeHeader_SIZE)

\* The pairs of an internal node: keys ascending, children distinct pages.
InternalNodes ==
    {ps \in UNION {[1..n -> [a : 0..MaxNum, b : 0..MaxNum]] : n \in 0..MaxPairs} :
        \A i, j \in DOMAIN ps : i < j => ps[i].a < ps[j].a /\ ps[i].b # ps[j].b}

\* node.write_data(&mut page)
WriteData(ps) ==
    /\ idata' = write_data(ps, idata)
    /\ ipairs' = ps
    /\ icall' = [name |-> "write_data", ret |-> <<>>]
    /\ UNCHANGED <<dvars, nvars, cvars, avars, lvars, tvars, rvars>>

\* InternalNode::new(&page.data)
New ==
    /\ icall' = [name |-> "new", ret |-> InternalNode_new(idata)]
    /\ UNCHANGED <<idata, ipairs, dvars, nvars, cvars, avars, lvars, tvars, rvars>>

NextInternal ==
    \/ \E ps \in InternalNodes : WriteData(ps)
    \/ New

SpecInternal == Init /\ [][NextInternal]_vars


\* --------------------------------------------- table node (table/node.rs)
\* TupleMeta::from(&[u8])
TupleMeta_from(value) == [deleted |-> value[1] > 1]

\* table::node::Slot::from(&[u8]): OFFSET = 0..4, LEN = 4..8, META = 8..9
Slot_T_from(buf) ==
    [offset |-> i32_from_be_bytes(Slice(buf, 1, 4)),
     len    |-> i32_from_be_bytes(Slice(buf, 5, 8)),
     meta   |-> TupleMeta_from(Slice(buf, 9, TupleInfoBuf_SIZE))]

\* TupleInfoBuf::from(&Slot)
TupleInfoBuf_from(slot) ==
    i32_to_be_bytes(slot.offset) \o i32_to_be_bytes(slot.len)
        \o <<IF slot.meta.deleted THEN 1 ELSE 0>>

RECURSIVE Node_from_slots(_, _, _)
\* The loop of Node::from: rem slots are read from offset `from` of the
\* bytes after the header.
Node_from_slots(left, from, rem) ==
    IF rem = 0 THEN <<>>
    ELSE <<Slot_T_from(Slice(left, from + 1, from + TupleInfoBuf_SIZE))>>
         \o Node_from_slots(left, from + TupleInfoBuf_SIZE, rem - 1)

\* Node::from(&PageBuf): the header, then tuples_len slots; page_start is
\* the buffer decoded.  Slots that run past the buffer panic.
Node_from(buf) ==
    IF SLOTS_START
         + i32_from_be_bytes(Slice(buf, 5, 8)) * TupleInfoBuf_SIZE > Len(buf)
    THEN Panicked
    ELSE [kind |-> "Node",
          page_start |-> buf,
          node |-> [next_page_id       |-> i32_from_be_bytes(Slice(buf, 1, 4)),
                    tuples_len         |-> i32_from_be_bytes(Slice(buf, 5, 8)),
                    deleted_tuples_len |-> i32_from_be_bytes(Slice(buf, 9, 12)),
                    slots |-> Node_from_slots(
                                  Slice(buf, SLOTS_START + 1, Len(buf)), 0,
                                  i32_from_be_bytes(Slice(buf, 5, 8)))]]

RECURSIVE PageBuf_slots(_, _, _, _)
\* The loop of PageBuf::from over the slots, the i-th written at `from`.
PageBuf_slots(slots, i, ret, from) ==
    IF i > Len(slots) THEN ret
    ELSE PageBuf_slots(slots, i + 1,
                       write_to(ret, from, TupleInfoBuf_from(slots[i])),
                       from + TupleInfoBuf_SIZE)

\* The header and the slots of PageBuf::from(&Node).
PageBuf_head(table) ==
    PageBuf_slots(table.slots, 1,
        write_to(write_to(write_to([x \in 1..TablePageSize |-> 0],
                     0, i32_to_be_bytes(table.next_page_id)),
                     4, i32_to_be_bytes(table.tuples_len)),
                     8, i32_to_be_bytes(table.deleted_tuples_len)),
        SLOTS_START)

\* PageBuf::from(&Node): the header and the slots, then the bytes from the
\* last slot's offset to the end of the page the node points to.
PageBuf_from(table, page_start) ==
    IF SLOTS_START + Len(table.slots) * TupleInfoBuf_SIZE > TablePageSize
    THEN Panicked
    ELSE IF table.slots = <<>>
    THEN [kind |-> "PageBuf", buf |-> PageBuf_head(table)]
    ELSE IF ~(table.slots[Len(table.slots)].offset < TablePageSize)
    THEN Panicked
    ELSE [kind |-> "PageBuf",
          buf  |-> [x \in 1..TablePageSize |->
                       IF x > table.slots[Len(table.slots)].offset
                       THEN page_start[x] ELSE PageBuf_head(table)[x]]]

\* The subtraction of next_tuple_offset went below zero.
Underflow == -3

\* Node::next_tuple_offset(tuple_data)
next_tuple_offset(node, tuple_data) ==
    LET offset == IF node.slots = <<>> THEN TablePageSize
                  ELSE node.slots[Len(node.slots)].offset
    IN  IF Len(tuple_data) > offset THEN Underflow
        ELSE IF offset - Len(tuple_data)
                  < HEADER_SIZE + TupleInfoBuf_SIZE * (node.tuples_len + 1)
        THEN None
        ELSE offset - Len(tuple_data)

\* The node after the push of Node::insert.
Node_pushed(node, offset, tuple_data, meta) ==
    [node EXCEPT !.slots = Append(@, [offset |-> offset,
                                       len    |-> Len(tuple_data),
                                       meta   |-> meta]),
                 !.tuples_len = @ + 1]

\* Node::insert(tuple_data, meta): the outcomes, each the node, the buffer
\* and what is returned.  A subtraction below zero panics in a build with
\* overflow checks; without them the offset wraps, the slot is pushed and
\* the tuple is written through a pointer outside the page: undefined.
Node_insert(node, buf, tuple_data, meta) ==
    LET offset == next_tuple_offset(node, tuple_data)
    IN  IF offset = None
        THEN {[node |-> node, buf |-> buf, ret |-> [kind |-> "None"]]}
        ELSE IF offset = Underflow
        THEN {[node |-> node, buf |-> buf, ret |-> Panicked],
              [node |-> node, buf |-> buf, ret |-> [kind |-> "undefined"]]}
        ELSE {[node |-> Node_pushed(node, offset, tuple_data, meta),
               buf  |-> write_to(buf, offset, tuple_data),
               ret  |-> [kind |-> "Some", v |-> node.tuples_len]]}

\* Node::get(r_id): the meta and the bytes of the slot r_id.slot_id.
Node_get(node, buf, slot_id) ==
    IF slot_id > node.tuples_len \/ slot_id >= Len(node.slots)
    THEN Panicked
    ELSE [kind |-> "Some",
          meta |-> node.slots[slot_id + 1].meta,
          data |-> Slice(buf, node.slots[slot_id + 1].offset + 1,
                         node.slots[slot_id + 1].offset
                             + node.slots[slot_id + 1].len)]

\* The tuples of the tests, of any length: byte i is i * m.
Tuples ==
    {[i \in 1..n |-> ((i - 1) * m + 1) % 256] : n \in 0..MaxTupleLen, m \in {2, 3}}

\* The process goes on: the last call neither panicked nor was undefined.
Running == tcall.ret \notin {Panicked, [kind |-> "undefined"]}

\* table.insert(&tuple_data, &meta)
TInsert(tuple_data, meta) ==
    /\ Running
    /\ \E o \in Node_insert(tnode, tbuf, tuple_data, meta) :
          /\ tnode' = o.node
          /\ tbuf' = o.buf
          /\ tins' = IF o.ret.kind = "Some" THEN Append(tins, tuple_data)
                     ELSE tins
          /\ tcall' = [name |-> "insert",
                       arg  |-> [data |-> tuple_data, before |-> tnode],
                       ret  |-> o.ret]
    /\ UNCHANGED <<tenc, dvars, ivars, cvars, avars, lvars, tvars, rvars>>

\* table.get(&RId { slot_id, .. }) for a slot the node has
TGet(slot_id) ==
    /\ Running
    /\ slot_id < tnode.tuples_len
    /\ tcall' = [name |-> "get", arg |-> slot_id,
                 ret  |-> Node_get(tnode, tbuf, slot_id)]
    /\ UNCHANGED <<tnode, tbuf, tenc, tins, dvars, ivars, cvars, avars, lvars, tvars, rvars>>

\* PageBuf::from(&table)
TInto ==
    /\ Running
    /\ tenc' = [buf |-> PageBuf_from(tnode, tbuf), node |-> tnode]
    /\ tcall' = [name |-> "into", arg |-> <<>>, ret |-> <<>>]
    /\ UNCHANGED <<tnode, tbuf, tins, dvars, ivars, cvars, avars, lvars, tvars, rvars>>

\* Node::from(&bytes) of the PageBuf last made
TFrom ==
    /\ Running
    /\ tenc.buf # <<>> /\ tenc.buf # Panicked
    /\ tcall' = [name |-> "from", arg |-> <<>>, ret |-> Node_from(tenc.buf.buf)]
    /\ UNCHANGED <<tnode, tbuf, tenc, tins, dvars, ivars, cvars, avars, lvars, tvars, rvars>>

NextTable ==
    \/ \E tuple_data \in Tuples, d \in BOOLEAN :
          TInsert(tuple_data, [deleted |-> d])
    \/ \E slot_id \in 0..2 : TGet(slot_id)
    \/ TInto
    \/ TFrom

SpecTable == Init /\ [][NextTable]_vars


\* ------------------------------------------------- catalog (catalog.rs)
\* The names given to the catalog, of tables and of indexes alike.
Names == 1..MaxNames

\* Catalog::get_index(table_name, index_name): an Option, <<>> for None and
\* <<info>> for Some(info)
get_index(table_name, index_name) ==
    IF table_name \notin DOMAIN index_names THEN <<>>
    ELSE IF index_name \notin DOMAIN index_names[table_name] THEN <<>>
    ELSE IF index_names[table_name][index_name] \notin DOMAIN indexes THEN <<>>
    ELSE <<indexes[index_names[table_name][index_name]]>>

\* catalog.create_table(name, schema)
CreateTable(name) ==
    /\ IF name \in DOMAIN table_names
       THEN /\ ccall' = [name |-> "create_table", t |-> name, i |-> 0,
                         ret |-> <<>>, pre |-> FALSE, fresh |-> FALSE]
            /\ UNCHANGED <<tables, table_names, next_table_oid, index_names>>
       ELSE /\ next_table_oid' = next_table_oid + 1
            /\ table_names' = table_names @@ (name :> next_table_oid)
            /\ index_names' = index_names @@ (name :> <<>>)
            /\ tables' = tables @@ (next_table_oid :> name)
            /\ ccall' = [name |-> "create_table", t |-> name, i |-> 0,
                         ret |-> <<[name |-> name, oid |-> next_table_oid]>>,
                         pre |-> FALSE,
                         fresh |-> FALSE]
    /\ UNCHANGED <<indexes, next_index_oid, dvars, ivars, nvars, lvars, avars, tvars, rvars>>

\* The early returns of create_index: the index name is a key of
\* index_names, the table is unknown, or the table has an index of that name.
create_index_refused(index_name, table_name) ==
    \/ index_name \in DOMAIN index_names
    \/ table_name \notin DOMAIN index_names
    \/ index_name \in DOMAIN index_names[table_name]

\* catalog.create_index(index_name, table_name, IndexType::BTree, schema, key)
CreateIndex(index_name, table_name) ==
    /\ next_index_oid < MaxIndexes
    /\ IF create_index_refused(index_name, table_name)
       THEN /\ ccall' = [name |-> "create_index", t |-> table_name,
                         i |-> index_name, ret |-> <<>>,
                         pre |-> /\ table_name \in DOMAIN table_names
                                 /\ get_index(table_name, index_name) = <<>>,
                         fresh |-> FALSE]
            /\ UNCHANGED <<indexes, index_names, next_index_oid>>
       ELSE /\ next_index_oid' = next_index_oid + 1
            /\ index_names' = [index_names EXCEPT ![table_name] =
                                  @ @@ (index_name :> next_index_oid)]
            /\ indexes' = indexes @@
                  (next_index_oid :> [name |-> index_name,
                                      oid  |-> next_index_oid])
            /\ ccall' = [name |-> "create_index", t |-> table_name,
                         i |-> index_name,
                         ret |-> <<[name |-> index_name,
                                   oid |-> next_index_oid]>>,
                         pre |-> TRUE,
                         fresh |-> next_index_oid \notin DOMAIN indexes]
    /\ UNCHANGED <<tables, table_names, next_table_oid, dvars, ivars, nvars,
                   lvars, avars, tvars, rvars>>

\* catalog.get_index(table_name, index_name)
GetIndex(table_name, index_name) ==
    /\ ccall' = [name |-> "get_index", t |-> table_name, i |-> index_name,
                 ret |-> get_index(table_name, index_name),
                 pre |-> FALSE, fresh |-> FALSE]
    /\ UNCHANGED <<tables, table_names, next_table_oid, indexes, index_names,
                   next_index_oid, dvars, ivars, nvars, lvars, avars, tvars, rvars>>

NextCat ==
    \/ \E name \in Names : CreateTable(name)
    \/ \E i \in Names, t \in Names : CreateIndex(i, t)
    \/ \E i \in Names, t \in Names : GetIndex(t, i)

SpecCat == Init /\ [][NextCat]_vars


\* ------------------------------------- the write guards of BTree::insert
\* A moment of an insert: the pages whose write guards it holds, and those
\* of them it allocated itself.
Guards(held, fresh) == [held |-> held, fresh |-> fresh]

RECURSIVE _insert_guards(_, _, _, _, _, _)

\* The block "Find and insert" on `node`, with the guards of `held` owned
\* by this call and its callers: a leaf ends the descent; otherwise cpage
\* is locked and handed to the recursive call, whose frame owns it until
\* it returns (prev_page.take() drops a reference, not a guard).
child_guards(pgs, nid, node, key, held, fresh) ==
    IF find_child(node, key) = None /\ node.t = "Leaf"
    THEN {Guards(held, fresh)}
    ELSE {Guards(held, fresh)} \cup
         _insert_guards(pgs, nid, find_child(covering(node, key), key), key,
                        held \cup {find_child(covering(node, key), key)},
                        fresh)

\* The guards held in the course of _insert(prev_page, page, key, value) on
\* the page pid, `held` being the guards of the callers and `page` itself.
\* An almost full node takes the guard npage of the new page nid; the
\* branch of the new sibling drops `page`, the other branch lets npage go
\* at the end of the `if` block.
_insert_guards(pgs, nid, pid, key, held, fresh) ==
    IF almost_full(pgs[pid])
    THEN {Guards(held, fresh), Guards(held \cup {nid}, fresh \cup {nid})} \cup
         IF key >= last_key(split(pgs[pid], nid).node)
         THEN child_guards(pgs, nid + 1, split(pgs[pid], nid).nnode, key,
                           (held \ {pid}) \cup {nid}, fresh \cup {nid})
         ELSE child_guards(pgs, nid + 1, split(pgs[pid], nid).node, key,
                           held, fresh)
    ELSE child_guards(pgs, nid, pgs[pid], key, held, fresh)

\* The guards held in the course of BTree::insert(key, _) that ends with
\* the root new_root_id: rpage and what _insert adds to it, then, with
\* rpage released, the guard of a new root.
insert_guards(key, new_root_id) ==
    (IF root = NoPage
     THEN _insert_guards(pages @@ (nextPage :> new(nextPage, "Leaf")),
                         nextPage + 1, nextPage, key, {nextPage}, {})
     ELSE _insert_guards(pages, nextPage, root, key, {root}, {}))
    \cup (IF root # NoPage /\ new_root_id # root
          THEN {Guards({new_root_id}, {})} ELSE {})

\* All tasks are out of the tree: nothing borrows it, so insert(&mut self)
\* can be called.
Unborrowed == \A p \in Procs : thr[p].op = "idle"

\* The state after a call btree.insert(k, v) that ended with r, with the
\* guards it held.
InsertGuarded(k, v, r) ==
    /\ Unborrowed
    /\ root' = r.root
    /\ pages' = r.pages
    /\ nextPage' = r.nid
    /\ last' = [last EXCEPT ![k] = v]
    /\ op' = [name |-> "insert", key |-> k, value |-> v, ret |-> TRUE,
              prev   |-> last[k],
              found  |-> get(k) # None,
              almost |-> \E p \in path(k) : almost_full(pages[p])]
    /\ iguards' = insert_guards(k, r.root)
    /\ UNCHANGED <<mem, thr, rvars, dvars, ivars, nvars, cvars, avars>>

\* btree.insert(k, v), the cache large, the disk of lim pages.
InsertG(k, v, lim) ==
    /\ insert(k, v, cache(ManyFrames)).nid <= lim
    /\ InsertGuarded(k, v, insert(k, v, cache(ManyFrames)))

\* Distinct keys inserted in any order, one call at a time.
NextGuard == \E x \in KeysMem : last[x] = 0 /\ InsertG(x, 1, MaxPagesMem)

SpecGuard == Init /\ [][NextGuard]_vars


\* ------------------------- calls through &self, one guard at a time
\* get, delete, scan and range borrow the tree shared, so tasks run them
\* side by side; each step below is one guard acquired (where the task may
\* have to wait) with the code up to the next acquisition or the return.

Task(name, key, to, ptr, held, n) ==
    [op |-> name, key |-> key, to |-> to, ptr |-> ptr, held |-> held, n |-> n]

\* The call returned: its guards are dropped.
Returned(t) == Task("idle", 0, 0, NoPage, <<>>, t.n)

\* The pages whose guards the task t holds.
held_pages(t) == {t.held[i] : i \in DOMAIN t.held}

\* page.read().await returns: no task holds the page's write guard
\* (_delete is the one call that takes write guards).
can_read(page) ==
    \A q \in Procs : ~(thr[q].op = "delete" /\ page \in held_pages(thr[q]))

\* page.write().await returns: no task holds a guard of the page.
can_write(page) == \A q \in Procs : page \notin held_pages(thr[q])

\* The task goes on to the child c with the guard of its page kept.
Descend(p, c) ==
    thr' = [thr EXCEPT ![p].held = Append(@, thr[p].ptr), ![p].ptr = c]

\* A task calls get(key), delete(key), scan() or range(key, to): self.root
\* is read; on an empty tree get and delete return and first / get_ptr
\* fail their assertion.
Call(p, name, key, to) ==
    /\ thr[p].op = "idle"
    /\ thr[p].n < MaxOps
    /\ thr' = [thr EXCEPT ![p] =
                  IF root = NoPage
                  THEN Task("idle", 0, 0, NoPage, <<>>, @.n + 1)
                  ELSE Task(name, key, to, root, <<>>, @.n + 1)]
    /\ UNCHANGED <<iguards, tvars, rvars, dvars, ivars, nvars, cvars, avars>>

\* _get(key, ptr): the page is read-locked, then the child's, the guards
\* living until the calls return.
GetStep(p) ==
    /\ thr[p].op = "get"
    /\ can_read(thr[p].ptr)
    /\ IF find_child(pages[thr[p].ptr], thr[p].key) # None
       THEN Descend(p, find_child(pages[thr[p].ptr], thr[p].key))
       ELSE thr' = [thr EXCEPT ![p] = Returned(@)]
    /\ UNCHANGED <<iguards, tvars, rvars, dvars, ivars, nvars, cvars, avars>>

\* _delete(key, ptr): as _get with write guards; the leaf is written when
\* the key was in it.
DeleteStep(p) ==
    /\ thr[p].op = "delete"
    /\ can_write(thr[p].ptr)
    /\ IF find_child(pages[thr[p].ptr], thr[p].key) # None
       THEN /\ Descend(p, find_child(pages[thr[p].ptr], thr[p].key))
            /\ UNCHANGED <<pages, last>>
       ELSE /\ thr' = [thr EXCEPT ![p] = Returned(@)]
            /\ IF pages[thr[p].ptr].t = "Leaf"
                  /\ thr[p].key \in DOMAIN pages[thr[p].ptr].vals
               THEN /\ pages' = [pages EXCEPT ![thr[p].ptr] =
                                    leaf_remove(@, thr[p].key)]
                    /\ last' = [last EXCEPT ![thr[p].key] = -1]
               ELSE UNCHANGED <<pages, last>>
    /\ UNCHANGED <<root, nextPage, op, mem, iguards, rvars, dvars, ivars,
                   nvars, cvars, avars>>

\* first(ptr): down the first slots to the leftmost leaf, whose id is
\* returned with every guard dropped.
FirstStep(p) ==
    /\ thr[p].op = "first"
    /\ can_read(thr[p].ptr)
    /\ IF pages[thr[p].ptr].t = "Leaf"
       THEN thr' = [thr EXCEPT ![p] =
                       Task("scan", 0, 0, @.ptr, <<>>, @.n)]
       ELSE Descend(p, pages[thr[p].ptr].vals[
                           MinOf(DOMAIN pages[thr[p].ptr].vals)])
    /\ UNCHANGED <<iguards, tvars, rvars, dvars, ivars, nvars, cvars, avars>>

\* scan, the loop body: the leaf cur is read-locked.
ScanLock(p) ==
    /\ thr[p].op = "scan" /\ thr[p].held = <<>>
    /\ can_read(thr[p].ptr)
    /\ thr' = [thr EXCEPT ![p].held = <<thr[p].ptr>>]
    /\ UNCHANGED <<iguards, tvars, rvars, dvars, ivars, nvars, cvars, avars>>

\* cur = node.next with a loop that does not move on.
scan_next_same(cur, node) == cur

\* cur = node.next
scan_next(cur, node) == node.next

\* scan, the end of the loop body: the guard goes, cur moves on; the loop
\* ends at cur = -1.
ScanNext(p) ==
    /\ thr[p].op = "scan" /\ thr[p].held # <<>>
    /\ thr' = [thr EXCEPT ![p] =
                  IF scan_next(@.ptr, pages[@.ptr]) = NoPage
                  THEN Returned(@)
                  ELSE Task("scan", 0, 0, scan_next(@.ptr, pages[@.ptr]),
                            <<>>, @.n)]
    /\ UNCHANGED <<iguards, tvars, rvars, dvars, ivars, nvars, cvars, avars>>

\* get_ptr(key, ptr): as _get; the leaf's id is returned with every guard
\* dropped, nothing from an internal node without a slot for the key.
GetPtrStep(p) ==
    /\ thr[p].op = "get_ptr"
    /\ can_read(thr[p].ptr)
    /\ IF find_child(pages[thr[p].ptr], thr[p].key) # None
       THEN Descend(p, find_child(pages[thr[p].ptr], thr[p].key))
       ELSE IF pages[thr[p].ptr].t = "Leaf"
       THEN thr' = [thr EXCEPT ![p] =
                       Task("range", @.key, @.to, @.ptr, <<>>, @.n)]
       ELSE thr' = [thr EXCEPT ![p] = Returned(@)]
    /\ UNCHANGED <<iguards, tvars, rvars, dvars, ivars, nvars, cvars, avars>>

\* range: the leaf get_ptr found is read-locked and given to _range.
RangeLock(p) ==
    /\ thr[p].op = "range"
    /\ can_read(thr[p].ptr)
    /\ thr' = [thr EXCEPT ![p].op = "_range", ![p].held = <<thr[p].ptr>>]
    /\ UNCHANGED <<iguards, tvars, rvars, dvars, ivars, nvars, cvars, avars>>

\* _range returns at this leaf: it added no pair, or the chain ends.
range_ends(node, from, to) ==
    \/ \A k \in DOMAIN node.vals : k < from \/ k > to
    \/ node.next = NoPage

\* _range on the leaf `page`, the last guard taken: it returns, or the
\* next leaf is read-locked next to prev_page and page.
RangeNext(p) ==
    /\ thr[p].op = "_range"
    /\ IF range_ends(pages[thr[p].ptr], thr[p].key, thr[p].to)
       THEN thr' = [thr EXCEPT ![p] = Returned(@)]
       ELSE /\ can_read(pages[thr[p].ptr].next)
            /\ thr' = [thr EXCEPT ![p].op = "_range_take",
                                  ![p].held = Append(@, pages[thr[p].ptr].next)]
    /\ UNCHANGED <<iguards, tvars, rvars, dvars, ivars, nvars, cvars, avars>>

\* prev_page.take(), then self._range(Some(page), r, ..): the guard before
\* `page` goes, `page` and r go to the callee.
RangeTake(p) ==
    /\ thr[p].op = "_range_take"
    /\ thr' = [thr EXCEPT ![p].op = "_range",
                          ![p].ptr = thr[p].held[Len(thr[p].held)],
                          ![p].held = IF Len(@) = 3 THEN Tail(@) ELSE @]
    /\ UNCHANGED <<iguards, tvars, rvars, dvars, ivars, nvars, cvars, avars>>

\* A step of the call the task p is in.
Run(p) ==
    \/ GetStep(p)
    \/ DeleteStep(p)
    \/ FirstStep(p)
    \/ ScanLock(p)
    \/ ScanNext(p)
    \/ GetPtrStep(p)
    \/ RangeLock(p)
    \/ RangeNext(p)
    \/ RangeTake(p)

\* Keys are inserted in ascending order while no task is in the tree, and
\* each task calls the tree MaxOps times.
NextLock ==
    \/ \E x \in KeysL :
          /\ last[x] = 0
          /\ \A j \in 1..(x - 1) : last[j] # 0
          /\ InsertG(x, 1, MaxPagesMem)
    \/ \E p \in Procs, x \in KeysL : Call(p, "get", x, 0)
    \/ \E p \in Procs, x \in KeysL : Call(p, "delete", x, 0)
    \/ \E p \in Procs : Call(p, "first", 0, 0)
    \/ \E p \in Procs, x \in KeysL, y \in KeysL :
          x <= y /\ Call(p, "get_ptr", x, y)
    \/ \E p \in Procs : Run(p)

\* A task that can take its next step does so sooner or later: the
\* runtime polls every task that is ready.
SpecLock ==
    Init /\ [][NextLock]_vars /\ \A p \in Procs : WF_vars(Run(p))


\* ------------------------------- LRUKActor and LRUKHandle (replacer.rs)
\* The frames the messages name.
MaxFrameH == 1
FramesH == 0..MaxFrameH

\* LRUKMessage, with the task that sent it (for Evict the task that holds
\* the receiving end of `reply`).
Messages ==
    [name : {"record_access", "pin", "unpin", "remove"}, i : FramesH,
     from : Senders]
    \cup [name : {"evict"}, i : {0}, from : Senders]

\* recv that takes the message sent last.
recv_newest(q) == Len(q)

\* self.rx.recv(): the position in the channel of the message received,
\* the one sent first.
recv(q) == 1

\* The channel q without the message at position n.
without(q, n) == SubSeq(q, 1, n - 1) \o SubSeq(q, n + 1, Len(q))

\* self.tx.send(m).await by the task s, a clone of the handle in hand:
\* record_access, pin, unpin and remove return once the message is in the
\* channel, evict then awaits the reply.  (A send to a killed actor fails
\* and changes nothing.)
Send(s, m) ==
    /\ actor = "running"
    /\ m.from = s
    /\ ~hnd[s].wait
    /\ Len(hnd[s].sent) < MaxSends
    /\ tx' = Append(tx, m)
    /\ hnd' = [hnd EXCEPT ![s].sent = Append(@, m),
                          ![s].wait = (m.name = "evict")]
    /\ UNCHANGED <<applied, actor, tvars, rvars, dvars, ivars, nvars, cvars,
                   lvars>>

\* One turn of the loop of LRUKActor::run: a message is received and
\* applied to self.inner; the return value of evict goes to `reply`.
Recv ==
    /\ actor = "running"
    /\ tx # <<>>
    /\ LET m == tx[recv(tx)]
       IN  /\ tx' = without(tx, recv(tx))
           /\ applied' = Append(applied, m)
           /\ \/ /\ m.name = "evict"
                 /\ \E ret \in FrameIds \cup {None} :
                       /\ evict_call(ret)
                       /\ hnd' = [hnd EXCEPT ![m.from].wait = FALSE,
                                             ![m.from].reply = <<ret>>]
              \/ m.name = "record_access" /\ record_access(m.i)
                                          /\ UNCHANGED hnd
              \/ m.name = "pin" /\ pin(m.i) /\ UNCHANGED hnd
              \/ m.name = "unpin" /\ unpin(m.i) /\ UNCHANGED hnd
              \/ m.name = "remove" /\ remove(m.i) /\ UNCHANGED hnd
    /\ UNCHANGED <<actor, tvars, dvars, ivars, nvars, cvars, lvars>>

\* The turn of the loop that meets Unpin(i) for a tracked frame whose
\* counter is 0, in a build with overflow checks: `node.pin -= 1` panics,
\* the actor's task ends and the channel closes.
RecvPanic ==
    /\ actor = "running"
    /\ tx # <<>>
    /\ LET m == tx[recv(tx)]
       IN  /\ m.name = "unpin"
           /\ m.i \in DOMAIN nodes /\ nodes[m.i].pin = 0
           /\ tx' = without(tx, recv(tx))
    /\ actor' = "killed"
    /\ UNCHANGED <<hnd, applied, tvars, rvars, dvars, ivars, nvars, cvars,
                   lvars>>

NextHandle ==
    \/ \E s \in Senders, m \in Messages : Send(s, m)
    \/ Recv
    \/ RecvPanic

\* Tasks with clones of one handle send to the actor of a replacer built
\* with K.
SpecHandle == Init /\ [][NextHandle]_vars

\* ---------------------------------------------------------------- claims

\* Leaves of the tree that hold a slot with key k.
leaves_with(k) ==
    {p \in tree : pages[p].t = "Leaf" /\ k \in DOMAIN pages[p].vals}

\* The live pairs in key order: (k, v) for every k whose last call was insert(k, v).
live == SlotsFrom(last, {k \in DOMAIN last : last[k] > 0})

\* The entries of s with lo <= key <= hi, in the order of s.
between(s, lo, hi) == SelectSeq(s, LAMBDA e : lo <= e[1] /\ e[1] <= hi)

\* Keys stored in the leaves under ptr.
RECURSIVE keys_under(_)
keys_under(ptr) ==
    LET node == pages[ptr]
    IN  IF node.t = "Leaf" THEN DOMAIN node.vals
        ELSE UNION {keys_under(node.vals[k]) : k \in DOMAIN node.vals}

\* Slots (q, k) of internal nodes that point at page p.
refs(p) ==
    {qk \in UNION {{<<q, k>> : k \in DOMAIN pages[q].vals} :
                      q \in {x \in DOMAIN pages : pages[x].t = "Internal"}} :
        pages[qk[1]].vals[qk[2]] = p}

\* C1 (P3, get-after-insert): every key whose most recent call is
\* insert(k, v) is found by get(k), with the value v.
C1_GetAfterInsert ==
    \A k \in DOMAIN last : last[k] > 0 => get(k) = last[k]

\* C2 (P5, overwrite): after insert(k, v2) of a key whose previous call was an
\* insert, get(k) returns v2 and the tree holds exactly one slot for k.
C2_Overwrite ==
    (op.name = "insert" /\ op.prev > 0) =>
        /\ get(op.key) = op.value
        /\ Cardinality(leaves_with(op.key)) = 1

\* C3 (P1, P2, I2): the keys scan() returns, which are the keys along the
\* leaf next-chain from the leftmost leaf, are strictly ascending.
C3_ScanAscending ==
    ~scan.panic =>
        \A i, j \in 1..Len(scan.out) : i < j => scan.out[i][1] < scan.out[j][1]

\* C4: scan() returns exactly the live pairs: none missing, no deleted or
\* superseded pair present.
C4_ScanExact ==
    ~scan.panic => scan.out = live

\* C5 (P4, get-after-delete): every key whose most recent call is delete(k)
\* is not found by get(k).
C5_GetAfterDelete ==
    \A k \in DOMAIN last : last[k] = -1 => get(k) = None

\* C6 (P6, range): for all bounds, range(from, to) is the part of scan() with
\* from <= key <= to.
C6_RangeIsScanBetween ==
    ~scan.panic =>
        \A from, to \in 0..(MaxKey + 1) :
            range(from, to).out = between(scan.out, from, to)

\* The frame of an insert that only replaces a value: no page allocated, root
\* id, kinds, slot keys, child pointers and next pointers as before; no leaf
\* value changed but that of the key, which now is the inserted value.
replace_only ==
    /\ root' = root
    /\ nextPage' = nextPage
    /\ DOMAIN pages' = DOMAIN pages
    /\ \A p \in DOMAIN pages :
        /\ pages'[p].t = pages[p].t
        /\ pages'[p].id = pages[p].id
        /\ pages'[p].next = pages[p].next
        /\ DOMAIN pages'[p].vals = DOMAIN pages[p].vals
        /\ \A k \in DOMAIN pages[p].vals :
              pages'[p].vals[k] # pages[p].vals[k] =>
                  /\ pages[p].t = "Leaf"
                  /\ k = op'.key
                  /\ p \in path(k)
    /\ \A p \in path(op'.key) :
          pages[p].t = "Leaf" => pages'[p].vals[op'.key] = op'.value

\* C7 as claimed: insert(k, v) of a key that is stored (get finds it) changes
\* nothing but the value in k's leaf slot.
C7_ReplaceKeepsStructure ==
    [][(op'.name = "insert" /\ op'.found) => replace_only]_vars

\* C7 amended: insert(k, v) of a key that get finds, when no node on the
\* descent path of k is almost full, changes nothing but the value in k's
\* leaf slot (an almost full node on the path is split before the key is
\* looked at, also when the key is already stored).
C7_ReplaceKeepsStructureUnlessSplit ==
    [][(op'.name = "insert" /\ op'.found /\ ~op'.almost) => replace_only]_vars

\* C7 witness: a key that was stored with another value was inserted again,
\* no almost full node on its path, under an internal root, and get returns
\* the new value.
C7_Witness ==
    /\ op.name = "insert"
    /\ op.found /\ ~op.almost
    /\ op.prev > 0 /\ op.prev # op.value
    /\ get(op.key) = op.value
    /\ \E p \in tree : pages[p].t = "Internal"

\* C8 (I1): every node, leaf and internal, holds at most max slots.
C8_CountAtMostMax ==
    \A p \in DOMAIN pages : len(pages[p]) <= MAX

\* C9 (I3): every page but the root is referenced by exactly one slot of
\* one internal node, and the root by none.
C9_OneParent ==
    \A p \in DOMAIN pages :
        IF p = root THEN refs(p) = {} ELSE Cardinality(refs(p)) = 1

\* C10 (I4, search order): for every internal slot (s -> c), every key stored
\* under c is <= s and greater than the key of the preceding slot of the node.
C10_SearchOrdered ==
    \A q \in tree : pages[q].t = "Internal" =>
        \A s \in DOMAIN pages[q].vals :
            \A k \in keys_under(pages[q].vals[s]) :
                /\ k <= s
                /\ \A t \in DOMAIN pages[q].vals : t < s => t < k

\* C19: delete(k) returns true exactly when a leaf of the tree held a slot
\* with key k when it was called; so a delete of a key whose last call was
\* a delete (or that was never inserted) returns false.
C19_DeleteReturnsStored ==
    [][op'.name = "delete" =>
          /\ op'.ret <=> (leaves_with(op'.key) # {})
          /\ op'.prev <= 0 => ~op'.ret]_vars

\* C20: delete allocates nothing and leaves the root id alone; the only page
\* it may change is the leaf the descent for the key ends in, of which only
\* the slot of the key goes; internal nodes, next pointers and get(j) for
\* every other key j stay; a delete that returns false changes no page.
C20_DeleteFrame ==
    [][op'.name = "delete" =>
          /\ root' = root
          /\ nextPage' = nextPage
          /\ DOMAIN pages' = DOMAIN pages
          /\ \A p \in DOMAIN pages :
                /\ pages'[p].t = pages[p].t
                /\ pages'[p].next = pages[p].next
                /\ pages'[p] # pages[p] =>
                      /\ pages[p].t = "Leaf"
                      /\ p \in path(op'.key)
                      /\ op'.key \in DOMAIN pages[p].vals
                      /\ pages'[p].vals = SetRemove(pages[p].vals, op'.key)
          /\ \A j \in Keys \ {op'.key} : get(j)' = get(j)
          /\ (~op'.ret \/ leaves_with(op'.key) = {}) => pages' = pages]_vars

\* C20 witness: a delete under an internal root removed the last slot of a
\* leaf that is not the last of the chain: the empty leaf is still a child
\* of its parent and still linked to its successor.
C20_Witness ==
    /\ op.name = "delete" /\ op.ret
    /\ pages[root].t = "Internal"
    /\ \E p \in tree :
          /\ pages[p].t = "Leaf"
          /\ pages[p].vals = <<>>
          /\ pages[p].next # NoPage
          /\ p \in path(op.key)

\* ------------------------------------------ claims on the bounded cache

\* C11: a tree call that returned OutOfMemory left nothing to see: get of
\* every key, scan and range of all bounds return what they returned before
\* the call, and every key stored under the root is still stored under it.
C11_FailedCallInvisible ==
    [][mem'.err =>
          /\ ~op'.ret
          /\ \A j \in KeysOOM : get(j)' = get(j)
          /\ root # NoPage => keys_under(root) \subseteq keys_under(root)'
          /\ scan' = scan
          /\ \A from \in KeysOOM : \A to \in from..MaxKeyOOM :
                range(from, to)' = range(from, to)]_vars

\* C12 (P8): when a tree call has returned, with success or OutOfMemory,
\* none of the pins it took is left: every page's pin count is what it was
\* before the call.
C12_NoPinLeft ==
    op.name \in {"insert", "delete", "get", "scan", "range"} => mem.pins = <<>>

\* C12 witness: an insert returned OutOfMemory while it held the pins of
\* the root and of the new sibling of the root, and left none.
C12_Witness ==
    /\ op.name = "insert" /\ mem.err
    /\ mem.peak >= 2
    /\ pages[root].t = "Internal"
    /\ mem.pins = <<>>

\* C13 (scenario 6): with Frames frames no insert of a distinct key returns
\* OutOfMemory or has more than Frames frames pinned at once, and neither
\* scan nor any range over the tree needs more.
C13_FourFramesSuffice ==
    /\ ~mem.err
    /\ mem.peak <= Frames
    /\ root # NoPage =>
          /\ ~scan_mem(cache(Frames)).err
          /\ \A from, to \in 0..(MaxKeyMem + 1) :
                ~range_mem(from, to, cache(Frames)).err

\* ------------------------------------------------- claims on the replacer

\* Tracked frames whose pin counter is 0.
unpinned == {f \in DOMAIN nodes : nodes[f].pin = 0}

\* Unpinned frames with K or more recorded accesses.
with_k == {f \in unpinned : Len(nodes[f].history) >= repl_k}

\* K-distance as the glossary has it: the most recent minus the K-th most
\* recent access timestamp of the frame.
k_distance(f) ==
    LET h == nodes[f].history
    IN  h[Len(h)] - h[Len(h) - (repl_k - 1)]

last_access(f) == nodes[f].history[Len(nodes[f].history)]

\* C14 (P9, I6): a frame evict returns is tracked with a pin counter of 0,
\* whatever calls came before.
C14_EvictUnpinned ==
    (rcall.name = "evict" /\ rcall.ret # None) =>
        /\ rcall.ret \in DOMAIN nodes
        /\ nodes[rcall.ret].pin = 0

\* C14 witness: evict returned a frame while another frame, which the
\* selection would prefer (K accesses when the returned one has fewer, or a
\* larger K-distance, or an earlier last access), is pinned.
C14_Witness ==
    /\ rcall.name = "evict" /\ rcall.ret # None
    /\ \E f \in DOMAIN nodes :
          /\ nodes[f].pin > 0
          /\ last_access(f) < last_access(rcall.ret)
          /\ Len(nodes[f].history) >= Len(nodes[rcall.ret].history)
    /\ \E f \in DOMAIN nodes : nodes[f].pin = U64_MAX

\* C15: when an unpinned frame has K or more accesses, evict returns an
\* unpinned frame with K or more accesses whose K-distance is the largest
\* of these.
C15_LargestKDistance ==
    (rcall.name = "evict" /\ with_k # {}) =>
        /\ rcall.ret \in with_k
        /\ \A g \in with_k : k_distance(rcall.ret) >= k_distance(g)

\* C16: when no unpinned frame has K accesses, evict returns the unpinned
\* frame whose last access is the earliest.
C16_EarliestLastAccess ==
    (rcall.name = "evict" /\ unpinned # {} /\ with_k = {}) =>
        /\ rcall.ret \in unpinned
        /\ \A g \in unpinned : last_access(rcall.ret) <= last_access(g)

\* C16 witness: several unpinned frames, none with K accesses, a pinned
\* frame accessed before all of them, and evict returned the earliest of
\* the unpinned ones, which is not the one with the lowest id.
C16_Witness ==
    /\ rcall.name = "evict" /\ with_k = {}
    /\ Cardinality(unpinned) >= 2
    /\ rcall.ret \in unpinned
    /\ \E g \in unpinned : g < rcall.ret
    /\ \E f \in DOMAIN nodes :
          nodes[f].pin > 0 /\ last_access(f) < last_access(rcall.ret)

\* C17: evict returns nothing exactly when no tracked frame is unpinned.
C17_NoneIffAllPinned ==
    rcall.name = "evict" => (rcall.ret = None <=> unpinned = {})

\* C18: the frame evict returned is the frame every replacer with the same
\* K and the same calls returns, whatever order its map iterates in.
C18_Deterministic ==
    rcall.name = "evict" => \A o \in Orders : evict(o) = rcall.ret


\* The bytes follow the slot format: a whole slot whose flag byte is 0 or 1.
slot_format(b) == Len(b) = Slot_SIZE /\ b[size_of_K + 1] \in {0, 1}

\* C21: decoding slot bytes that violate the format (a flag byte other than
\* 0 or 1, bytes that stop short of or run past the slot) returns the error
\* value CorruptPage: the call returns, it does not abort.
C21_CorruptPageReturned ==
    (ecall.name = "from" /\ ~slot_format(ecall.arg))
        => ecall.ret = [kind |-> "CorruptPage"]


\* The pairs of the sequence ps.
pairs_of(ps) == {ps[i] : i \in DOMAIN ps}

\* C22: page id 0 is a valid page: a pair of an internal node whose child
\* pointer is page 0 is among the pairs decoded from the page the node was
\* encoded into.
C22_PageZeroKept ==
    (icall.name = "new" /\ icall.ret # Panicked)
        => \A pr \in pairs_of(ipairs) :
               pr.b = 0 => pr \in pairs_of(icall.ret)


\* C27: for every table node, decoding the page buffer made from the node
\* gives a node equal to it (next page id, counts, slots with their deleted
\* flags) and the same tuple bytes at the same offsets.
C27_TableNodeRoundTrip ==
    (tcall.name = "from" /\ tcall.ret # Panicked)
        => /\ tcall.ret.node = tenc.node
           /\ \A i \in DOMAIN tenc.node.slots :
                 Node_get(tcall.ret.node, tcall.ret.page_start, i - 1)
                     = Node_get(tenc.node, tbuf, i - 1)


\* The tuple fits between the slot array, grown by one slot, and the tuple
\* area of the node.
fits(node, tuple_data) ==
    HEADER_SIZE + TupleInfoBuf_SIZE * (node.tuples_len + 1) + Len(tuple_data)
        <= (IF node.slots = <<>> THEN TablePageSize
            ELSE node.slots[Len(node.slots)].offset)

\* C28: from an empty table node on, the i-th successful insert returns
\* slot id i, get of slot i returns the bytes given to the i-th insert
\* whatever was inserted later, and an insert whose tuple does not fit
\* returns none and leaves the node unchanged.
C28_InsertThenGet ==
    /\ (tcall.name = "insert" /\ tcall.ret.kind = "Some")
          => tcall.ret.v = Len(tins) - 1
    /\ Running
          => \A i \in DOMAIN tins :
                Node_get(tnode, tbuf, i - 1).kind = "Some"
                    /\ Node_get(tnode, tbuf, i - 1).data = tins[i]
    /\ (tcall.name = "insert" /\ ~fits(tcall.arg.before, tcall.arg.data))
          => tcall.ret = [kind |-> "None"] /\ tnode = tcall.arg.before


\* C29: create_index(i, t, ..) for an existing table t and an index name i
\* not yet defined on t registers the index under an unused oid, and
\* get_index(t, i) then returns it, whatever other names exist.
C29_CreateIndexThenGet ==
    (ccall.name = "create_index" /\ ccall.pre)
        => /\ ccall.ret # <<>>
           /\ ccall.fresh
           /\ get_index(ccall.t, ccall.i) = ccall.ret


\* C30 as stated: for every frame with n >= K accesses the K-distance evict
\* works with is h[last] - h[last - K] (0-based, last = n - 1; 1-based that
\* is h[n] - h[n - K]).
C30_StatedDistance ==
    rcall.name = "evict" =>
        \A f \in DOMAIN nodes :
            LET h == nodes[f].history
                n == Len(h)
            IN  n >= repl_k =>
                    /\ n - repl_k \in DOMAIN h
                    /\ get_k_distance(nodes[f], repl_k) = h[n] - h[n - repl_k]

\* C30 amended: the K-distance evict works with is the most recent access
\* minus the K-th most recent one, h[last] - h[last - (K - 1)], undefined
\* below K accesses: when some unpinned frame has a positive distance of
\* that kind, evict returns an unpinned frame with K or more accesses
\* whose distance of that kind is the largest, and a frame with fewer than
\* K accesses has no distance.
C30_KthMostRecent ==
    rcall.name = "evict" =>
        /\ \A f \in DOMAIN nodes :
              Len(nodes[f].history) < repl_k
                  => get_k_distance(nodes[f], repl_k) = None
        /\ (\E f \in with_k : k_distance(f) > 0) =>
              /\ rcall.ret \in with_k
              /\ \A g \in with_k : k_distance(rcall.ret) >= k_distance(g)

\* C30 witness: with K = 2, evict returned a frame with exactly K accesses
\* (h[last - K] does not exist) in preference to another unpinned frame
\* with K accesses and a smaller positive distance.
C30_Witness ==
    /\ rcall.name = "evict" /\ repl_k = 2
    /\ rcall.ret \in with_k
    /\ Len(nodes[rcall.ret].history) = repl_k
    /\ \E g \in with_k \ {rcall.ret} :
          0 < k_distance(g) /\ k_distance(g) < k_distance(rcall.ret)


\* C23: an insert holds write guards on at most a parent and its child,
\* next to pages it allocated itself, at every moment of its descent; the
\* guard of the parent is gone once the child is locked and descended from.
C23_ParentChildPair ==
    \A g \in iguards : Cardinality(g.held \ g.fresh) <= 2


\* The guards a task holds while it walks the leaf chain in scan or range.
chain_guards(p) ==
    IF thr[p].op \in {"scan", "range", "_range", "_range_take"}
    THEN thr[p].held ELSE <<>>

\* C24: while walking the leaf chain, scan and range hold at most two leaf
\* read guards at any moment, acquired in the order of the chain.
C24_TwoLeafGuards ==
    \A p \in Procs :
        /\ Len(chain_guards(p)) <= 2
        /\ \A i \in 1..(Len(chain_guards(p)) - 1) :
              pages[chain_guards(p)[i]].next = chain_guards(p)[i + 1]


\* C26: every call of get, delete, scan and range that tasks run side by
\* side, with inserts between them, returns: no task waits for a guard
\* forever.
C26_AllTerminate ==
    \A p \in Procs : (thr[p].op # "idle") ~> (thr[p].op = "idle")

\* C26 witness: a delete that holds the write guard of an internal node
\* waits for a leaf that a range holds among its three leaf guards.
C26_Witness ==
    \E p \in Procs, q \in Procs :
        /\ thr[p].op = "delete" /\ thr[p].held # <<>>
        /\ ~can_write(thr[p].ptr)
        /\ thr[q].op = "_range_take" /\ Len(thr[q].held) = 3
        /\ thr[p].ptr \in held_pages(thr[q])


\* The child the insert of key descends into from the internal node.
insert_child(node, key) == find_child(covering(node, key), key)

\* The keys of the slots of node that point to the page c.
slots_to(node, c) == {k \in DOMAIN node.vals : node.vals[k] = c}

\* In this step an insert went through an internal root that was not
\* almost full into a child that was, so that the child split and the root
\* absorbed its separators.
root_absorbed ==
    /\ op'.name = "insert"
    /\ root # NoPage /\ pages[root].t = "Internal"
    /\ ~almost_full(pages[root])
    /\ almost_full(pages[insert_child(pages[root], op'.key)])

\* C31: a parent that absorbs a child's split holds afterwards one slot for
\* the child, under the child's last key, and one for the sibling, under
\* the sibling's last key, in the place of the old slot: its slot count
\* grows by exactly one, also after a bump.
C31_AbsorbReplacesOld ==
    [][root_absorbed =>
        LET c == insert_child(pages[root], op'.key)
            s == nextPage
        IN  /\ root' = root
            /\ len(pages'[root]) = len(pages[root]) + 1
            /\ slots_to(pages'[root], c) = {last_key(pages'[c])}
            /\ slots_to(pages'[root], s) = {last_key(pages'[s])}
      ]_vars


\* The half of the split node the insert of key goes on in.
half_for(node, nid, key) ==
    IF key >= last_key(split(node, nid).node)
    THEN split(node, nid).nnode ELSE split(node, nid).node

\* The splits an insert of key makes from the page ptr down, in the state
\* before it, as pairs <<page split, page of its sibling>>; nid is the next
\* page the disk gives.
RECURSIVE split_pairs(_, _, _)
split_pairs(key, ptr, nid) ==
    LET node == pages[ptr]
        full == almost_full(node)
        half == IF full THEN half_for(node, nid, key) ELSE node
        nid1 == IF full THEN nid + 1 ELSE nid
    IN  (IF full THEN {<<ptr, nid>>} ELSE {}) \cup
        (IF half.t = "Leaf" THEN {}
         ELSE split_pairs(key, insert_child(half, key), nid1))

\* What identifies the slots of a node: the keys of a leaf, the child
\* pointers of an internal node (a bump changes the key of a slot).
slot_ids(node) ==
    IF node.t = "Leaf" THEN DOMAIN node.vals
    ELSE {node.vals[k] : k \in DOMAIN node.vals}

\* The slots of node that are among the first n by key.
lower_ids(node, n) ==
    LET low == {k \in DOMAIN node.vals :
                  Cardinality({j \in DOMAIN node.vals : j < k}) < n}
    IN  IF node.t = "Leaf" THEN low ELSE {node.vals[k] : k \in low}

\* The slots of node that are not among the first n by key.
upper_ids(node, n) ==
    LET up == {k \in DOMAIN node.vals :
                 Cardinality({j \in DOMAIN node.vals : j < k}) >= n}
    IN  IF node.t = "Leaf" THEN up ELSE {node.vals[k] : k \in up}

\* The child pointers an internal node holds in two slots (the slot an
\* earlier absorb left behind next to the one it added), which do not
\* tell its slots apart.
twice_ids(node) ==
    IF node.t = "Leaf" THEN {}
    ELSE {node.vals[k] : k \in {j \in DOMAIN node.vals :
                                   \E i \in DOMAIN node.vals :
                                       i # j /\ node.vals[i] = node.vals[j]}}

\* The slots of the node as the split left them: in a leaf, all but the
\* slot the insert of key put there afterwards.
split_ids(node, key) ==
    IF node.t = "Leaf" THEN DOMAIN node.vals \ {key} ELSE slot_ids(node)

\* Their keys.
split_keys(node, key) ==
    IF node.t = "Leaf" THEN DOMAIN node.vals \ {key} ELSE DOMAIN node.vals

\* The original page p and the sibling page s after the split of the node
\* `old` by an insert of key: the halves of old's slots, the lower in p,
\* the upper in s.
split_kept(old, key, p, s, a, b) ==
    /\ s \notin DOMAIN pages
    /\ slot_ids(old) \subseteq slot_ids(a) \cup slot_ids(b)
    /\ split_ids(a, key) \cap split_ids(b, key) \subseteq twice_ids(old)
    /\ lower_ids(old, len(old) \div 2) \subseteq slot_ids(a)
    /\ upper_ids(old, len(old) \div 2) \subseteq slot_ids(b)
    /\ \A x \in split_keys(a, key), y \in split_keys(b, key) : x < y
    /\ old.t = "Leaf" => (b.next = old.next /\ a.next = s)

\* C32: an insert that splits an almost full node leaves the lower half of
\* its slots in the original page and the upper half in the new sibling,
\* no slot lost or in both, every key of the original below every key of
\* the sibling, and a leaf's sibling linked in after it.
C32_SplitHalves ==
    [][(op'.name = "insert" /\ op'.ret /\ root # NoPage) =>
          \A ps \in split_pairs(op'.key, root, nextPage) :
              split_kept(pages[ps[1]], op'.key, ps[1], ps[2],
                         pages'[ps[1]], pages'[ps[2]])
      ]_vars


\* C32 witness: one insert split an internal node and a leaf under it (it
\* held the guards of two pages it allocated), and the tree has three
\* levels.
C32_Witness ==
    /\ op.name = "insert" /\ op.ret
    /\ \E g \in iguards : Cardinality(g.fresh) >= 2
    /\ \E q \in tree : pages[q].t = "Internal" /\ q # root


\* The keys stored in the leaves under the page ptr of the pages pgs.
RECURSIVE keys_below(_, _)
keys_below(pgs, ptr) ==
    IF pgs[ptr].t = "Leaf" THEN DOMAIN pgs[ptr].vals
    ELSE UNION {keys_below(pgs, pgs[ptr].vals[k]) : k \in DOMAIN pgs[ptr].vals}

\* In this step an insert met an internal root, not almost full, none of
\* whose separators reaches the key, and the root's last child did not
\* split.
root_bumped ==
    /\ op'.name = "insert"
    /\ root # NoPage /\ pages[root].t = "Internal"
    /\ ~almost_full(pages[root])
    /\ \A k \in DOMAIN pages[root].vals : k < op'.key
    /\ ~almost_full(pages[pages[root].vals[last_key(pages[root])]])

\* C33: an insert of a key greater than every separator of an internal
\* node changes that node's last slot only: the slot's key becomes
\* key.next(), its pointer, the other slots and the slot count stay, and
\* the key goes into the subtree of that last child.
C33_BumpLastSlotOnly ==
    [][root_bumped =>
        LET old == pages[root]
            lk  == last_key(old)
            now == pages'[root]
        IN  /\ root' = root
            /\ DOMAIN now.vals = (DOMAIN old.vals \ {lk}) \cup {op'.key + 1}
            /\ now.vals[op'.key + 1] = old.vals[lk]
            /\ \A k \in DOMAIN old.vals \ {lk} : now.vals[k] = old.vals[k]
            /\ len(now) = len(old)
            /\ op'.key \in keys_below(pages', old.vals[lk])
      ]_vars

\* C33 witness: the last insert bumped the root's last slot to its key's
\* successor, a key that is not stored, and put the key under that slot's
\* child, next to another child of the root.
C33_Witness ==
    /\ op.name = "insert" /\ op.ret
    /\ root # NoPage /\ pages[root].t = "Internal"
    /\ last_key(pages[root]) = op.key + 1
    /\ get(op.key + 1) = None
    /\ op.key \in keys_below(pages, pages[root].vals[op.key + 1])
    /\ len(pages[root]) >= 2


\* C34: for an internal node whose pairs fit in the page (here with room
\* to spare and no child on page 0), decoding the page the node was encoded
\* into returns exactly the node's pairs in order, whatever the page held
\* before: nothing after the first absent slot is returned.
C34_DecodeStopsAtAbsent ==
    (/\ icall.name = "new"
     /\ BTreeHeader_SIZE + (Len(ipairs) + 1) * p_size < PAGE_SIZE
     /\ \A pr \in pairs_of(ipairs) : pr.b # 0)
        => icall.ret = ipairs


\* C35: on a tree that has never been inserted into (root = -1) get
\* returns none, delete returns false and leaves the pages alone, and scan
\* and range return an empty sequence; none of them panics.
C35_EmptyTreeReads ==
    root = NoPage =>
        /\ \A k \in Keys : get(k) = None
        /\ \A k \in Keys : ~delete(k).ret /\ delete(k).pages = pages
        /\ ~scan.panic /\ scan.out = <<>>
        /\ \A from, to \in Keys : LET r == range(from, to)
                                  IN  ~r.panic /\ r.out = <<>>


\* C36: a frame's pin counter is the number of its pin calls minus the
\* number of its unpin calls and never goes below zero, in every order of
\* calls: an unpin call leaves each tracked counter as it was or one lower,
\* a pin call as it was or one higher.
C36_PinCounterCounts ==
    [][/\ rcall'.name = "unpin" =>
            \A i \in DOMAIN nodes :
                nodes'[i].pin \in {nodes[i].pin, nodes[i].pin - 1} \ {-1}
       /\ rcall'.name = "pin" =>
            \A i \in DOMAIN nodes :
                nodes'[i].pin \in {nodes[i].pin, nodes[i].pin + 1}
      ]_vars


\* C37: insert(k, v) succeeds and get(k) returns v also when k is the
\* greatest value of the key type, 2^31 - 1 for i32 keys, and exceeds every
\* separator on its path, so that the bump computes key.next().
C37_GreatestKeyInserted ==
    (op.name = "insert" /\ op.key = I32_MAX)
        => op.ret /\ get(op.key) = op.value


\* The replacer state [nodes, ts] after the call the message m stands for,
\* made directly on a replacer in the state st.
called(st, m) ==
    LET tracked == m.i \in DOMAIN st.nodes
    IN  CASE m.name = "record_access" ->
                 [nodes |-> IF tracked
                            THEN [st.nodes EXCEPT
                                      ![m.i].history = Append(@, st.ts)]
                            ELSE st.nodes @@
                                 (m.i :> [i |-> m.i, history |-> <<st.ts>>,
                                          pin |-> 0]),
                  ts |-> st.ts + 1]
          [] m.name = "pin" /\ tracked ->
                 [st EXCEPT !.nodes[m.i].pin = IF @ = U64_MAX THEN 0 ELSE @ + 1]
          [] m.name = "unpin" /\ tracked ->
                 [st EXCEPT !.nodes[m.i].pin = IF @ = 0 THEN U64_MAX ELSE @ - 1]
          [] m.name = "remove" ->
                 [st EXCEPT !.nodes = [f \in DOMAIN @ \ {m.i} |-> @[f]]]
          [] OTHER -> st

\* The replacer state after the calls of msgs from the n-th on, in order.
RECURSIVE replay(_, _, _)
replay(msgs, n, st) ==
    IF n > Len(msgs) THEN st ELSE replay(msgs, n + 1, called(st, msgs[n]))

\* The messages of the task s among msgs, in the order of msgs.
of_task(msgs, s) == SelectSeq(msgs, LAMBDA m : m.from = s)

\* C38: messages sent through clones of the handle are applied one at a
\* time in the order they were enqueued: each task's messages are received
\* in the order it sent them, a task that got the reply to its evict has
\* none of its earlier messages left in the channel, and the replacer is
\* in the state the received messages give when called one after another.
C38_AppliedInOrder ==
    actor = "running" =>
        /\ \A s \in Senders : of_task(applied \o tx, s) = hnd[s].sent
        /\ \A s \in Senders :
               (hnd[s].sent # <<>> /\ ~hnd[s].wait
                   /\ hnd[s].sent[Len(hnd[s].sent)].name = "evict")
               => of_task(tx, s) = <<>>
        /\ LET st == replay(applied, 1, [nodes |-> <<>>, ts |-> 0])
           IN  nodes = st.nodes /\ current_ts = st.ts

\* C38 witness: a task sent record_access(i) and then evict and got the
\* reply i, while a message of another task was applied between the two.
C38_Witness ==
    /\ actor = "running"
    /\ \E s \in Senders :
          /\ Len(hnd[s].sent) = 2
          /\ hnd[s].sent[1].name = "record_access"
          /\ hnd[s].sent[2].name = "evict"
          /\ hnd[s].reply = <<hnd[s].sent[1].i>>
          /\ \E j, k, l \in DOMAIN applied :
                /\ j < k /\ k < l
                /\ applied[j].from = s /\ applied[l].from = s
                /\ applied[k].from # s

=============================================================================
